---- MODULE Spec2Model ----
(***************************************************************************)
(* Model of the chat gateway of backend/app/routes_chat.py: the marker     *)
(* filters (strip_thinking_tags, StreamingThinkFilter) and the two         *)
(* endpoints /v1/chat and /v1/chat/stream with their session histories.    *)
(* Text is a sequence of one-character strings.                            *)
(***************************************************************************)
EXTENDS Integers, Sequences, FiniteSets, TLC

\* ------------------------------------------------------------------ text

\* The start marker "<think>" (routes_chat.py:89).
THINK == <<"<", "t", "h", "i", "n", "k", ">">>

\* The end marker "</think>" (routes_chat.py:67).
ENDTHINK == <<"<", "/", "t", "h", "i", "n", "k", ">">>

\* Whitespace, as str.lstrip() and the pattern's \s see it.
WS == {" ", "\n"}

Min(a, b) == IF a < b THEN a ELSE b

\* s[:n]
Prefix(s, n) == SubSeq(s, 1, n)

\* s[n:]
Suffix(s, n) == SubSeq(s, n + 1, Len(s))

\* s[i:].startswith(pat), i counted from 0
StartsAt(s, pat, i) ==
    /\ i + Len(pat) <= Len(s)
    /\ \A j \in 1..Len(pat) : s[i + j] = pat[j]

\* s.endswith(pat)
EndsWith(s, pat) == Len(pat) <= Len(s) /\ StartsAt(s, pat, Len(s) - Len(pat))

\* pat in s
Contains(s, pat) == \E i \in 0..(Len(s) - Len(pat)) : StartsAt(s, pat, i)

\* s.find(pat): the least index (from 0) where pat occurs, -1 when none
Find(s, pat) ==
    IF ~Contains(s, pat) THEN -1
    ELSE CHOOSE i \in 0..(Len(s) - Len(pat)) :
            /\ StartsAt(s, pat, i)
            /\ \A j \in 0..(i - 1) : ~StartsAt(s, pat, j)

\* LStrip that strips nothing.
LStripNothing(s) == s

\* s.lstrip()
LStrip(s) ==
    IF \A j \in 1..Len(s) : s[j] \in WS THEN <<>>
    ELSE Suffix(s, (CHOOSE i \in 1..Len(s) :
                       /\ s[i] \notin WS
                       /\ \A j \in 1..(i - 1) : s[j] \in WS) - 1)

\* not s.strip(): empty or all whitespace
IsBlank(s) == \A j \in 1..Len(s) : s[j] \in WS

\* --------------------------------------------------- the one-shot filter

RECURSIVE strip_thinking_tags(_)
\* _THINK_PATTERN.sub('', text) with the pattern <think>.*?</think>\s* under
\* DOTALL: the leftmost start marker that has an end marker after it is removed
\* up to the first such end marker and the whitespace after it, and the scan
\* goes on behind the match.
strip_thinking_tags(text) ==
    LET s == Find(text, THINK)
    IN  IF s = -1 THEN text
        ELSE LET body == Suffix(text, s + Len(THINK))
                 e == Find(body, ENDTHINK)
             IN  IF e = -1 THEN text
                 ELSE Prefix(text, s)
                        \o strip_thinking_tags(LStrip(Suffix(body, e + Len(ENDTHINK))))

\* ------------------------------------------------ the streaming filter

\* StreamingThinkFilter.__init__
NewFilter == [buffer |-> <<>>, in_thinking |-> FALSE, strip_leading_ws |-> FALSE]

\* PartialLens with the loop trying the first character of the marker only.
PartialLensOne(buffer) == 1..Min(1, Len(buffer))

\* The lengths i the partial-tag loop tries: range(1, min(len("<think>"), len(buffer) + 1))
PartialLens(buffer) == 1..(Min(Len(THINK), Len(buffer) + 1) - 1)

\* PartialTag with the partial-tag loop left out: nothing is ever held back.
PartialTagNever(buffer) == 0

\* The first i of the loop for which buffer.endswith("<think>"[:i]), 0 when none
PartialTag(buffer) ==
    LET hits == {i \in PartialLens(buffer) : EndsWith(buffer, Prefix(THINK, i))}
    IN  IF hits = {} THEN 0 ELSE CHOOSE i \in hits : \A j \in hits : i <= j

\* process_non_thinking without `self.buffer = self.buffer[start_idx:]`: the
\* text before the start marker is returned and kept.
RECURSIVE process_non_thinkingKeepsAll(_, _)
process_non_thinkingKeepsAll(buffer, ws) ==
    IF Contains(buffer, THINK)
    THEN LET start_idx == Find(buffer, THINK)
             to_yield == Prefix(buffer, start_idx)
             buf == buffer
         IN  IF Contains(buf, ENDTHINK)
             THEN LET end_idx == Find(buf, ENDTHINK) + Len(ENDTHINK)
                      remaining == LStrip(Suffix(buf, end_idx))
                  IN  IF remaining # <<>>
                      THEN [process_non_thinkingKeepsAll(remaining, ws)
                                EXCEPT !.out = to_yield \o @]
                      ELSE [buffer |-> <<>>, in_thinking |-> FALSE,
                            strip_leading_ws |-> TRUE, out |-> to_yield]
             ELSE [buffer |-> buf, in_thinking |-> TRUE,
                   strip_leading_ws |-> ws, out |-> to_yield]
    ELSE LET i == PartialTag(buffer)
         IN  [buffer |-> Suffix(buffer, Len(buffer) - i), in_thinking |-> FALSE,
              strip_leading_ws |-> ws, out |-> Prefix(buffer, Len(buffer) - i)]

RECURSIVE process_non_thinking(_, _)
\* StreamingThinkFilter._process_non_thinking on a filter whose buffer is
\* `buffer` and whose strip flag is `ws`: the filter's fields afterwards and
\* the text returned (out).
process_non_thinking(buffer, ws) ==
    IF Contains(buffer, THINK)
    THEN LET start_idx == Find(buffer, THINK)
             to_yield == Prefix(buffer, start_idx)
             buf == Suffix(buffer, start_idx)
         IN  IF Contains(buf, ENDTHINK)
             THEN LET end_idx == Find(buf, ENDTHINK) + Len(ENDTHINK)
                      remaining == LStrip(Suffix(buf, end_idx))
                  IN  IF remaining # <<>>
                      THEN [process_non_thinking(remaining, ws) EXCEPT !.out = to_yield \o @]
                      ELSE [buffer |-> <<>>, in_thinking |-> FALSE,
                            strip_leading_ws |-> TRUE, out |-> to_yield]
             ELSE [buffer |-> buf, in_thinking |-> TRUE,
                   strip_leading_ws |-> ws, out |-> to_yield]
    ELSE LET i == PartialTag(buffer)
         IN  [buffer |-> Suffix(buffer, Len(buffer) - i), in_thinking |-> FALSE,
              strip_leading_ws |-> ws, out |-> Prefix(buffer, Len(buffer) - i)]

\* process with `self.buffer = token` for `self.buffer += token`: what was
\* held back by the call before is lost.
processForgetsBuffer(f, token) ==
    LET joined == IF f.in_thinking THEN f.buffer \o token ELSE token
        b0 == IF f.strip_leading_ws THEN LStrip(joined) ELSE joined
        ws0 == f.strip_leading_ws /\ b0 = <<>>
    IN  IF ws0
        THEN [buffer |-> b0, in_thinking |-> f.in_thinking,
              strip_leading_ws |-> TRUE, out |-> <<>>]
        ELSE IF f.in_thinking
        THEN IF Contains(b0, ENDTHINK)
             THEN LET end_idx == Find(b0, ENDTHINK) + Len(ENDTHINK)
                      remaining == LStrip(Suffix(b0, end_idx))
                  IN  IF remaining # <<>>
                      THEN process_non_thinking(remaining, FALSE)
                      ELSE [buffer |-> <<>>, in_thinking |-> FALSE,
                            strip_leading_ws |-> TRUE, out |-> <<>>]
             ELSE [buffer |-> b0, in_thinking |-> TRUE,
                   strip_leading_ws |-> FALSE, out |-> <<>>]
        ELSE process_non_thinking(b0, FALSE)

\* StreamingThinkFilter.process(token) on filter f: the filter's fields
\* afterwards and the text returned (out).
process(f, token) ==
    LET joined == f.buffer \o token
        b0 == IF f.strip_leading_ws THEN LStrip(joined) ELSE joined
        ws0 == f.strip_leading_ws /\ b0 = <<>>
    IN  IF ws0
        THEN [buffer |-> b0, in_thinking |-> f.in_thinking,
              strip_leading_ws |-> TRUE, out |-> <<>>]
        ELSE IF f.in_thinking
        THEN IF Contains(b0, ENDTHINK)
             THEN LET end_idx == Find(b0, ENDTHINK) + Len(ENDTHINK)
                      remaining == LStrip(Suffix(b0, end_idx))
                  IN  IF remaining # <<>>
                      THEN process_non_thinking(remaining, FALSE)
                      ELSE [buffer |-> <<>>, in_thinking |-> FALSE,
                            strip_leading_ws |-> TRUE, out |-> <<>>]
             ELSE [buffer |-> b0, in_thinking |-> TRUE,
                   strip_leading_ws |-> FALSE, out |-> <<>>]
        ELSE process_non_thinking(b0, FALSE)

\* flush with the test of in_thinking left out: the buffer is returned even
\* inside a region.
flushReturnsRegion(f) ==
    [buffer |-> <<>>, in_thinking |-> FALSE, strip_leading_ws |-> FALSE,
     out |-> f.buffer]

\* StreamingThinkFilter.flush() on filter f
flush(f) ==
    IF f.in_thinking
    THEN [buffer |-> <<>>, in_thinking |-> FALSE, strip_leading_ws |-> FALSE,
          out |-> <<>>]
    ELSE [buffer |-> <<>>, in_thinking |-> FALSE, strip_leading_ws |-> FALSE,
          out |-> f.buffer]

\* FilterOf with strip_leading_ws not kept from one call to the next.
FilterOfForgetsStrip(r) ==
    [buffer |-> r.buffer, in_thinking |-> r.in_thinking, strip_leading_ws |-> FALSE]

\* The filter's fields of a process/flush result.
FilterOf(r) ==
    [buffer |-> r.buffer, in_thinking |-> r.in_thinking,
     strip_leading_ws |-> r.strip_leading_ws]

\* ------------------------------------- the filters on bounded inputs

\* The longest input, in pieces.
MaxPieces == 4

\* A closed region with the body x.
Region == THINK \o <<"x">> \o ENDTHINK

\* The pieces inputs are made of: the two markers, a closed region, a
\* letter, whitespace, and the two halves of a start marker.
Pieces ==
    {THINK, ENDTHINK, Region, <<"a">>, <<" ">>, Prefix(THINK, 4), Suffix(THINK, 4)}

PieceSeqs == UNION {[1..n -> Pieces] : n \in 0..MaxPieces}

RECURSIVE Flatten(_)
Flatten(ps) == IF ps = <<>> THEN <<>> ELSE Head(ps) \o Flatten(Tail(ps))

\* --------------------------------------------- sessions and requests

\* The number of requests a behaviour serves; they may overlap.
MaxReq == 2

Reqs == 1..MaxReq

\* Session ids (ChatRequest.session_id).
Sessions == {"s1", "s2"}

\* ChatRequest.input of request r: each request brings its own text.
InputOf(r) == <<"q", <<"1", "2", "3", "4">>[r]>>

OK == <<"o", "k">>

\* Texts the chat model can answer with: plain text, a closed region followed
\* by whitespace and text, text followed by a region that is never closed,
\* a region alone, whitespace alone, text that ends with the first character
\* of a start marker.
Closed == THINK \o <<"x">> \o ENDTHINK \o <<" ">> \o OK
Unclosed == <<"a">> \o THINK \o <<"x">>
OnlyRegion == Region
Blank == <<" ">>
PartialEnd == <<"a", "<">>

\* What chain.ainvoke can return (prompt | llm | StrOutputParser: a string).
ChainOutputs == {OK, Closed, Unclosed, OnlyRegion, Blank, PartialEnd}

\* What chain.astream can deliver: the chunks of one answer, in order.
ChainStreams ==
    { <<OK>>,
      <<Prefix(THINK, 4), Suffix(THINK, 4) \o <<"x">> \o ENDTHINK \o <<" ">>, OK>>,
      <<<<"a">>, THINK \o <<"x">>>>,
      <<OnlyRegion>>,
      <<Blank>>,
      <<PartialEnd>>,
      <<>> }

\* An optional text: None is <<>>, the text t is <<t>>.
None == <<>>
Some(t) == <<t>>

\* What agent.ainvoke can return: a string, a dict with an output and/or
\* messages (ai marks an AIMessage), or something else.
AgentResults ==
    { [kind |-> "str", output |-> Some(OK), has_messages |-> FALSE, messages |-> <<>>],
      [kind |-> "dict", output |-> Some(Closed), has_messages |-> FALSE, messages |-> <<>>],
      [kind |-> "dict", output |-> None, has_messages |-> TRUE,
       messages |-> <<[ai |-> TRUE, content |-> OnlyRegion],
                      [ai |-> TRUE, content |-> Unclosed],
                      [ai |-> FALSE, content |-> OK]>>],
      [kind |-> "dict", output |-> Some(<<>>), has_messages |-> TRUE,
       messages |-> <<[ai |-> FALSE, content |-> OK]>>],
      [kind |-> "other", output |-> None, has_messages |-> FALSE, messages |-> <<>>] }

\* What agent.astream_events can deliver: on_chat_model_stream chunks,
\* the on_chain_end output of AgentExecutor as a string or as a dict, and
\* events of other kinds.
Chunk(t) == [kind |-> "chunk", text |-> t]

AgentStreams ==
    { <<Chunk(OK)>>,
      <<Chunk(Prefix(THINK, 4)), Chunk(Suffix(THINK, 4) \o <<"x">> \o ENDTHINK \o <<" ">> \o OK)>>,
      <<Chunk(<<"a">>), Chunk(THINK \o <<"x">>)>>,
      <<Chunk(Blank)>>,
      <<[kind |-> "other", text |-> <<>>], [kind |-> "end_str", text |-> OK]>>,
      <<Chunk(<<>>), [kind |-> "end_dict", text |-> OnlyRegion]>>,
      <<>> }

\* AddMessages without the second append: the reply is not recorded.
AddUserMessageOnly(h, input, text) == Append(h, [role |-> "user", content |-> input])

\* history.add_user_message(input); history.add_ai_message(text): the two
\* appends follow each other with no await between them.
AddMessages(h, input, text) ==
    h \o <<[role |-> "user", content |-> input],
           [role |-> "assistant", content |-> text]>>

\* LastAI scanning the messages from the front: the first AIMessage.
RECURSIVE FirstAI(_)
FirstAI(msgs) ==
    IF msgs = <<>> THEN None
    ELSE IF Head(msgs).ai THEN Some(Head(msgs).content)
    ELSE FirstAI(Tail(msgs))

\* The content of the last AIMessage of msgs, as an optional text: the loop
\* over reversed(out["messages"]) that stops at the first AIMessage it meets.
RECURSIVE LastAI(_)
LastAI(msgs) ==
    IF msgs = <<>> THEN None
    ELSE IF msgs[Len(msgs)].ai THEN Some(msgs[Len(msgs)].content)
    ELSE LastAI(Prefix(msgs, Len(msgs) - 1))

\* not text, for an optional text: None or the empty string
Falsy(t) == t = None \/ t[1] = <<>>

\* The reply text chat takes from the agent result (routes_chat.py:177-186),
\* as an optional text.
ExtractText(out) ==
    IF out.kind = "str" THEN out.output
    ELSE IF out.kind = "dict"
    THEN IF Falsy(out.output) /\ out.has_messages
         THEN LET m == LastAI(out.messages)
              IN  IF m = None THEN out.output ELSE m
         ELSE out.output
    ELSE None

\* text = strip_thinking_tags(text) if text else text
StripIfAny(t) == IF Falsy(t) THEN t ELSE Some(strip_thinking_tags(t[1]))

\* ValidText without the test of text.strip(): whitespace passes.
ValidTextNotEmpty(t) == ~Falsy(t)

\* The validation of chat: not (not text or not text.strip())
ValidText(t) == ~Falsy(t) /\ ~IsBlank(t[1])

\* The validation of chat_stream: not (not emitted or not clean_response.strip())
ValidStream(emitted, clean_response) == emitted /\ ~IsBlank(clean_response)

\* The text an agent event hands to the filter, as an optional text: the
\* content of a chunk and a string output only when not empty, the output of
\* a dict output always, nothing for other events.
EventText(ev) ==
    IF ev.kind \in {"chunk", "end_str"}
    THEN IF ev.text = <<>> THEN None ELSE Some(ev.text)
    ELSE IF ev.kind = "end_dict" THEN Some(ev.text)
    ELSE None

\* A token event as the client receives it; path is the generation path that
\* yielded it (kept for the claims, the client does not see it).
Token(path, data) == [event |-> "token", data |-> data, path |-> path]
Done(path, sid) == [event |-> "done", data |-> <<sid>>, path |-> path]
Error(path) == [event |-> "error", data |-> <<"error">>, path |-> path]

\* The detail field of an HTTP 500 answer, str(e), as an optional text.
Detail == Some(<<"e">>)

\* ------------------------------------------------ configuration

\* The default of Settings.chat_model_id, and the temperature used when a
\* request gives none (0.2), in tenths.
DefaultModel == "Qwen/Qwen3-8B"
DefaultTemperature == 2

\* The model and the temperature a request may carry, as optional values:
\* ChatRequest.model is an optional string, ChatRequest.temperature an
\* optional float (in tenths here).
ModelOverrides == {None, Some(""), Some("m1")}
TemperatureOverrides == {None, Some(0), Some(2), Some(7)}

\* model or settings.chat_model_id: None and the empty string give the
\* configured model.
ModelName(model, configured) ==
    IF model = None \/ model[1] = "" THEN configured ELSE model[1]

\* Temp with `temperature or 0.2`: a temperature of 0 gives the default.
TempOrDefault(temperature) ==
    IF temperature = None \/ temperature[1] = 0 THEN DefaultTemperature
    ELSE temperature[1]

\* temperature if temperature is not None else 0.2
Temp(temperature) ==
    IF temperature = None THEN DefaultTemperature ELSE temperature[1]

\* ------------------------------------------------ Cloud Run tokens

\* _token_cache as the module creates it.
EmptyCache == [token |-> None, expiry |-> 0, audience |-> None]

TOKEN_REFRESH_MARGIN == 300

\* The lifetime the cache assumes for a token it stores.
TokenLifetime == 3600

\* time.time() when the first call is made.
Epoch == 1000

RunApp == <<".", "r", "u", "n", ".", "a", "p", "p">>
V1 == <<"/", "v", "1">>

\* The URLs the functions are called with: Cloud Run URLs of two services,
\* with and without the /v1 path and a trailing slash, a URL of another
\* host, and the empty string.
UrlA == <<"a">> \o RunApp
UrlB == <<"b">> \o RunApp
Urls == { UrlA, UrlA \o V1 \o <<"/">>, UrlB \o V1, <<"h">> \o V1, <<>> }

\* The arguments: a URL, or None.
UrlArgs == {None} \cup {Some(u) : u \in Urls}

\* The seconds that may pass between two calls.
Delays == {0, 3299, 3300}

\* s.rstrip("/")
RECURSIVE RStripSlash(_)
RStripSlash(s) ==
    IF s # <<>> /\ s[Len(s)] = "/" THEN RStripSlash(Prefix(s, Len(s) - 1)) ELSE s

\* target_url.rstrip("/").split("/v1")[0]
Audience(target_url) ==
    LET t == RStripSlash(target_url)
        i == Find(t, V1)
    IN  IF i = -1 THEN t ELSE Prefix(t, i)

\* What a fetch can do: hand out a token, hand out none (None or an empty
\* string), or raise; _fetch_id_token_with_impersonation turns a raise into
\* None.
FetchOutcomes == {"token", "none", "raise"}
ImpersonationOutcomes == {"token", "none"}

\* The token a fetch by `method` hands out for `audience` at time t.
NewToken(audience, t, method) == [audience |-> audience, at |-> t, method |-> method]

\* CacheHit without the comparison of the audience.
CacheHitAnyAudience(cached, audience, t) ==
    /\ cached.token # None
    /\ cached.expiry > t + TOKEN_REFRESH_MARGIN

\* cached["token"] and cached["audience"] == audience
\*     and cached["expiry"] > now + TOKEN_REFRESH_MARGIN
CacheHit(cached, audience, t) ==
    /\ cached.token # None
    /\ cached.audience = Some(audience)
    /\ cached.expiry > t + TOKEN_REFRESH_MARGIN

\* get_id_token_for_url(target_url) at time t with _token_cache = cached,
\* where fetch_id_token does m1 and impersonation, if tried, does m2: the
\* token returned (an optional value), the cache afterwards, and the fetches
\* attempted, in order.
get_id_token_for_url(target_url, cached, t, m1, m2) ==
    IF target_url = None \/ target_url[1] = <<>> \/ ~Contains(target_url[1], RunApp)
    THEN [token |-> None, cache |-> cached, attempts |-> <<>>]
    ELSE LET audience == Audience(target_url[1])
         IN  IF CacheHit(cached, audience, t)
             THEN [token |-> cached.token, cache |-> cached, attempts |-> <<>>]
             ELSE LET first == IF m1 = "token"
                               THEN Some(NewToken(audience, t, "fetch_id_token"))
                               ELSE None
                      second == IF m2 = "token"
                                THEN Some(NewToken(audience, t, "impersonation"))
                                ELSE None
                      token == IF first = None THEN second ELSE first
                      attempts ==
                          <<[method |-> "fetch_id_token", audience |-> audience,
                             outcome |-> m1]>>
                          \o (IF first = None
                              THEN <<[method |-> "impersonation", audience |-> audience,
                                      outcome |-> m2]>>
                              ELSE <<>>)
                  IN  IF token # None
                      THEN [token |-> token,
                            cache |-> [token |-> token, expiry |-> t + TokenLifetime,
                                       audience |-> Some(audience)],
                            attempts |-> attempts]
                      ELSE [token |-> None, cache |-> cached, attempts |-> attempts]

\* The headers as a set of name/value pairs; the value f"Bearer {token}" as
\* its parts.
Bearer(token) == <<"Bearer", " ", token>>

\* get_auth_headers with the header built whatever the token is.
HeadersAlways(token) ==
    {[name |-> "Authorization", value |-> Bearer(IF token = None THEN "None" ELSE token[1])]}

\* if token: return {"Authorization": f"Bearer {token}"}; return {}
Headers(token) ==
    IF token # None THEN {[name |-> "Authorization", value |-> Bearer(token[1])]}
    ELSE {}

\* ------------------------------------------------ doc_get

\* Paths and URIs are texts over these pieces: two file names, ".", "/",
\* the scheme "gs:" and two bucket names. ".." is two "." in a row, "gs://"
\* the scheme and two "/".
Resume == "resume.md"
Secret == "secret.md"
DotDot == <<".", ".">>
GsScheme == <<"gs:", "/", "/">>

\* ALLOWED_MCP_PATHS
ALLOWED_MCP_PATHS == {<<Resume>>}

\* settings.gcs_bucket_name
gcs_bucket_name == <<"bucket">>

\* s.lstrip("/")
RECURSIVE LStripSlash(_)
LStripSlash(t) == IF t # <<>> /\ Head(t) = "/" THEN LStripSlash(Tail(t)) ELSE t

\* t.split("/"): the texts between the slashes, in order
RECURSIVE SplitSlash(_)
SplitSlash(t) ==
    IF ~Contains(t, <<"/">>) THEN <<t>>
    ELSE LET i == Find(t, <<"/">>)
         IN  <<Prefix(t, i)>> \o SplitSlash(Suffix(t, i + 1))

\* "/".join(parts)
RECURSIVE JoinSlash(_)
JoinSlash(parts) ==
    IF parts = <<>> THEN <<>>
    ELSE IF Len(parts) = 1 THEN parts[1]
    ELSE parts[1] \o <<"/">> \o JoinSlash(Tail(parts))

\* The elements of sequence q that satisfy Keep, in order.
RECURSIVE DropDots(_)
DropDots(parts) ==
    IF parts = <<>> THEN <<>>
    ELSE (IF Head(parts) \in {<<>>, <<".">>} THEN <<>> ELSE <<Head(parts)>>)
         \o DropDots(Tail(parts))

\* Path(path).as_posix() on a POSIX system: empty and "." components are
\* dropped, ".." is kept, one leading slash is kept (two stay two), and the
\* empty path is ".".
as_posix(path) ==
    LET lead == Len(path) - Len(LStripSlash(path))
        root == IF lead = 0 THEN <<>> ELSE IF lead = 2 THEN <<"/", "/">> ELSE <<"/">>
        body == JoinSlash(DropDots(SplitSlash(path)))
    IN  IF root = <<>> /\ body = <<>> THEN <<".">> ELSE root \o body

\* _validate_path(path): is_valid
validate_path(path) ==
    IF path = <<>> THEN FALSE
    ELSE LET normalized == as_posix(path)
         IN  IF Contains(normalized, DotDot) \/ StartsAt(normalized, <<"/">>, 0) THEN FALSE
             ELSE normalized \in ALLOWED_MCP_PATHS

\* t.replace("gs://", "")
RECURSIVE DropScheme(_)
DropScheme(t) ==
    IF ~Contains(t, GsScheme) THEN t
    ELSE LET i == Find(t, GsScheme)
         IN  Prefix(t, i) \o DropScheme(Suffix(t, i + Len(GsScheme)))

\* gcs_path.split("/", 1) when "/" is in gcs_path: the bucket name and the
\* blob path
BucketAndBlob(gcs_path) ==
    LET i == Find(gcs_path, <<"/">>)
    IN  [bucket |-> Prefix(gcs_path, i), blob |-> Suffix(gcs_path, i + 1)]

\* validate_gcs_uri that accepts every bucket.
validate_gcs_uriAnyBucket(gcs_uri) ==
    IF ~StartsAt(gcs_uri, GsScheme, 0) THEN FALSE
    ELSE LET gcs_path == DropScheme(gcs_uri)
         IN  IF ~Contains(gcs_path, <<"/">>) THEN FALSE
             ELSE ~Contains(BucketAndBlob(gcs_path).blob, DotDot)

\* _validate_gcs_uri(gcs_uri): is_valid
validate_gcs_uri(gcs_uri) ==
    IF ~StartsAt(gcs_uri, GsScheme, 0) THEN FALSE
    ELSE LET gcs_path == DropScheme(gcs_uri)
         IN  IF ~Contains(gcs_path, <<"/">>) THEN FALSE
             ELSE IF BucketAndBlob(gcs_path).bucket # gcs_bucket_name THEN FALSE
             ELSE ~Contains(BucketAndBlob(gcs_path).blob, DotDot)

\* What a call of doc_get did: the URIs that passed _validate_gcs_uri, whether
\* rag.retrieval_query was called, the objects asked of the bucket (exists,
\* and download_as_text if the object exists), and the answer: an error, or
\* the content with its uri.
Answer(validated, retrieved, reads, content, uri) ==
    [validated |-> validated, retrieved |-> retrieved, reads |-> reads,
     content |-> content, uri |-> uri]

\* The storage part of doc_get for a URI: the object of the bucket and blob
\* path of the URI is asked for, and its content returned if it exists.
Fetch(uri, validated, retrieved, exists) ==
    LET gcs_path == DropScheme(uri)
    IN  IF ~Contains(gcs_path, <<"/">>)
        THEN Answer(validated, retrieved, <<>>, FALSE, None)
        ELSE Answer(validated, retrieved, <<BucketAndBlob(gcs_path)>>, exists,
                    IF exists THEN Some(uri) ELSE None)

\* The source URI doc_get takes from the contexts of the retrieval for
\* rag_file_id, as an optional text: that of the first context whose source
\* URI or metadata matches the id, else that of the first context.
RECURSIVE FirstMatch(_, _)
FirstMatch(contexts, rag_file_id) ==
    IF contexts = <<>> THEN None
    ELSE LET ctx == Head(contexts)
             src == ctx.source_uri
         IN  IF Falsy(src) THEN FirstMatch(Tail(contexts), rag_file_id)
             ELSE LET parts == SplitSlash(src[1])
                      source_filename == parts[Len(parts)]
                  IN  IF \/ rag_file_id = source_filename
                         \/ Contains(src[1], rag_file_id)
                         \/ EndsWith(src[1], rag_file_id)
                         \/ EndsWith(rag_file_id, source_filename)
                         \/ ctx.metadata
                      THEN src
                      ELSE FirstMatch(Tail(contexts), rag_file_id)

SourceUri(contexts, rag_file_id) ==
    IF contexts = <<>> THEN None
    ELSE LET m == FirstMatch(contexts, rag_file_id)
         IN  IF Falsy(m) /\ ~Falsy(contexts[1].source_uri) THEN contexts[1].source_uri
             ELSE m

\* doc_get(rag_file_id, gcs_uri, path), where the retrieval, if called, does
\* `retrieval` ("raise", or the contexts it returns) and the object asked
\* for exists or not.
doc_get(rag_file_id, gcs_uri, path, retrieval, exists) ==
    IF Falsy(rag_file_id) /\ Falsy(gcs_uri) /\ Falsy(path)
    THEN Answer(<<>>, FALSE, <<>>, FALSE, None)
    ELSE IF ~Falsy(path) /\ ~validate_path(path[1])
    THEN Answer(<<>>, FALSE, <<>>, FALSE, None)
    ELSE LET uri == IF ~Falsy(path)
                    THEN Some(GsScheme \o gcs_bucket_name \o <<"/">> \o LStripSlash(path[1]))
                    ELSE gcs_uri
         IN  IF ~Falsy(uri)
             THEN IF ~validate_gcs_uri(uri[1])
                  THEN Answer(<<>>, FALSE, <<>>, FALSE, None)
                  ELSE Fetch(uri[1], <<uri[1]>>, FALSE, exists)
             ELSE IF StartsAt(rag_file_id[1], GsScheme, 0)
             THEN IF ~validate_gcs_uri(rag_file_id[1])
                  THEN Answer(<<>>, FALSE, <<>>, FALSE, None)
                  ELSE Fetch(rag_file_id[1], <<rag_file_id[1]>>, FALSE, exists)
             ELSE IF retrieval = "raise"
             THEN Answer(<<>>, TRUE, <<>>, FALSE, None)
             ELSE LET source_uri == SourceUri(retrieval, rag_file_id[1])
                  IN  IF Falsy(source_uri)
                      THEN Answer(<<>>, TRUE, <<>>, FALSE, None)
                      ELSE IF ~validate_gcs_uri(source_uri[1])
                      THEN Answer(<<>>, TRUE, <<>>, FALSE, None)
                      ELSE Fetch(source_uri[1], <<source_uri[1]>>, TRUE, exists)

\* The fields of ChatRequest, and those without a default.
SchemaFields == {"session_id", "input", "stream", "model", "temperature"}
Required == {"session_id", "input"}

\* A request that has not arrived yet. body holds the names of the fields of
\* the JSON body; agent_out is what agent.ainvoke returned, raw what the
\* chain has produced so far, acquired and released count the entries into
\* and the exits from the tool session's block (kept for the claims).
Idle ==
    [pc |-> "idle", endpoint |-> "chat", session_id |-> "s1", input |-> <<>>,
     read |-> <<>>, source |-> <<>>, think_filter |-> NewFilter,
     emitted |-> FALSE, full_response_content |-> <<>>, body_ok |-> FALSE,
     pending |-> <<>>, events |-> <<>>, status |-> 0, text |-> <<>>,
     detail |-> <<>>, tool_failed |-> "no", commits |-> <<>>,
     body |-> Required, agent_out |-> <<>>, raw |-> <<>>,
     acquired |-> 0, released |-> 0]

VARIABLES
    pieces,     \* the pieces of the input text of the filter run
    rest,       \* the part of the input not yet fed to the filter
    filt,       \* the StreamingThinkFilter of the run
    yielded,    \* everything process and flush returned so far, concatenated
    flushed,    \* whether flush has been called
    use_mcp_in_chat,    \* settings.use_mcp_in_chat
    session_cache,      \* _session_cache: session id -> the history's messages
    rq,                 \* the requests: where each is and its local variables
    chat_model_id,      \* settings.chat_model_id
    llms,               \* the ChatOpenAI objects built so far, with the overrides asked for
    token_cache,        \* cloudrun_auth._token_cache
    now,                \* time.time()
    calls,              \* the calls of cloudrun_auth made so far, with what they did
    created,            \* the session ids _session_cache holds a history for
    doc_calls,          \* the calls of doc_get made so far, with what they did
    mw_calls            \* the calls of the middleware's /chat so far, with their answers

fvars == <<pieces, rest, filt, yielded, flushed>>

cvars == <<use_mcp_in_chat, session_cache, rq>>

gvars == <<chat_model_id, llms>>

avars == <<token_cache, now, calls>>

tvars == <<doc_calls, mw_calls>>

\* What the steps of a request leave alone, but for created.
xvars == <<chat_model_id, llms, token_cache, now, calls, doc_calls, mw_calls>>

ovars == <<chat_model_id, llms, token_cache, now, calls, doc_calls, mw_calls, created>>

vars == <<pieces, rest, filt, yielded, flushed, use_mcp_in_chat, session_cache, rq,
          chat_model_id, llms, token_cache, now, calls, created, doc_calls, mw_calls>>

\* No LLM is built outside the configuration runs: the model is the default
\* of Settings.chat_model_id.
ConfigIdle ==
    /\ chat_model_id = DefaultModel
    /\ llms = <<>>

\* cloudrun_auth as imported: an empty _token_cache, and no call made.
AuthIdle ==
    /\ token_cache = EmptyCache
    /\ now = Epoch
    /\ calls = <<>>

\* No call of doc_get and none of the middleware has been made.
ToolsIdle ==
    /\ doc_calls = <<>>
    /\ mw_calls = <<>>

\* The filter run is idle while requests are served.
FilterIdle ==
    /\ pieces = <<>>
    /\ rest = <<>>
    /\ filt = NewFilter
    /\ yielded = <<>>
    /\ flushed = TRUE

\* No request is served during a filter run.
ChatIdle ==
    /\ use_mcp_in_chat = FALSE
    /\ session_cache = [s \in Sessions |-> <<>>]
    /\ created = {}
    /\ rq = [r \in Reqs |-> Idle]

FilterInit ==
    /\ pieces \in PieceSeqs
    /\ rest = Flatten(pieces)
    /\ filt = NewFilter
    /\ yielded = <<>>
    /\ flushed = FALSE
    /\ ChatIdle
    /\ ConfigIdle
    /\ AuthIdle
    /\ ToolsIdle

\* One call of process on the next fragment, of any length k >= 1.
FeedFragment ==
    /\ ~flushed
    /\ \E k \in 1..Len(rest) : \E r \in {process(filt, Prefix(rest, k))} :
             /\ filt' = FilterOf(r)
             /\ yielded' = yielded \o r.out
             /\ rest' = Suffix(rest, k)
    /\ UNCHANGED <<ovars, pieces, flushed, cvars>>

\* The call of flush after the last fragment.
Flush ==
    /\ ~flushed
    /\ rest = <<>>
    /\ LET r == flush(filt)
       IN  /\ filt' = FilterOf(r)
           /\ yielded' = yielded \o r.out
    /\ flushed' = TRUE
    /\ UNCHANGED <<ovars, pieces, rest, cvars>>

FilterNext == FeedFragment \/ Flush

SpecFilter == FilterInit /\ [][FilterNext]_vars

\* ------------------------------------------- /v1/chat and /v1/chat/stream

\* Messages with get_session_history handing out a new, empty history on
\* every call.
MessagesOfNewHistory(sid) == <<>>

\* get_session_history(session_id).messages: the messages of the history
\* _session_cache holds for the id, an empty one being stored on first use.
Messages(sid) == session_cache[sid]

\* The session ids request r may carry (the first request's names the ids).
SessionsFor(r) == IF r = 1 THEN {"s1"} ELSE Sessions

\* Arrive without the test of settings.use_mcp_in_chat: the tool path is
\* always tried first.
ArriveToolAlways(r) ==
    /\ rq[r].pc = "idle"
    /\ \A q \in Reqs : q < r => rq[q].pc # "idle"
    /\ \E ep \in {"chat", "stream"}, sid \in SessionsFor(r) :
         rq' = [rq EXCEPT ![r] =
                  [Idle EXCEPT !.endpoint = ep, !.session_id = sid,
                               !.input = InputOf(r),
                               !.pc = "t_acquire"]]
    /\ UNCHANGED <<ovars, fvars, use_mcp_in_chat, session_cache>>

\* Request r arrives at /v1/chat or /v1/chat/stream and runs up to its first
\* await: the tool session when settings.use_mcp_in_chat, else the plain path.
Arrive(r) ==
    /\ rq[r].pc = "idle"
    /\ \A q \in Reqs : q < r => rq[q].pc # "idle"
    /\ \E ep \in {"chat", "stream"}, sid \in SessionsFor(r) :
         rq' = [rq EXCEPT ![r] =
                  [Idle EXCEPT !.endpoint = ep, !.session_id = sid,
                               !.input = InputOf(r),
                               !.pc = IF use_mcp_in_chat THEN "t_acquire"
                                      ELSE "p_start"]]
    /\ UNCHANGED <<ovars, fvars, use_mcp_in_chat, session_cache>>

\* ToolAcquired with the input recorded in the history as soon as the tool
\* path starts, before anything is generated or validated.
ToolAcquiredSavesInput(r) ==
    /\ rq[r].pc = "t_acquire"
    /\ \E src \in IF rq[r].endpoint = "chat" THEN {<<>>} ELSE AgentStreams :
         rq' = [rq EXCEPT ![r] =
                  [rq[r] EXCEPT !.read = Messages(rq[r].session_id),
                            !.source = src,
                            !.acquired = @ + 1,
                            !.pc = IF rq[r].endpoint = "chat" THEN "t_invoke"
                                   ELSE "t_stream"]]
    /\ session_cache' =
          [session_cache EXCEPT ![rq[r].session_id] =
             Append(@, [role |-> "user", content |-> rq[r].input])]
    /\ created' = created \cup {rq[r].session_id}
    /\ UNCHANGED <<xvars, fvars, use_mcp_in_chat>>

\* build_agent_with_mcp(...).__aenter__ returns the agent: the history is
\* read, and chat awaits agent.ainvoke, gen iterates agent.astream_events
\* with a fresh filter and fresh accumulators.
ToolAcquired(r) ==
    /\ rq[r].pc = "t_acquire"
    /\ \E src \in IF rq[r].endpoint = "chat" THEN {<<>>} ELSE AgentStreams :
         rq' = [rq EXCEPT ![r] =
                  [rq[r] EXCEPT !.read = Messages(rq[r].session_id),
                            !.source = src,
                            !.think_filter = NewFilter,
                            !.emitted = FALSE,
                            !.full_response_content = <<>>,
                            !.acquired = @ + 1,
                            !.pc = IF rq[r].endpoint = "chat" THEN "t_invoke"
                                   ELSE "t_stream"]]
    /\ created' = created \cup {rq[r].session_id}
    /\ UNCHANGED <<xvars, fvars, use_mcp_in_chat, session_cache>>

\* __aenter__ raises (no MCP session, missing imports): except Exception,
\* fall through to the plain path.
ToolAcquireFails(r) ==
    /\ rq[r].pc = "t_acquire"
    /\ rq' = [rq EXCEPT ![r] = [rq[r] EXCEPT !.tool_failed = "acquire", !.pc = "p_start"]]
    /\ UNCHANGED <<ovars, fvars, use_mcp_in_chat, session_cache>>

\* chat: agent.ainvoke returns out; the text is extracted, stripped and
\* validated; a valid text is appended with the input to the history and the
\* return leaves the async with block (the tool session is then released);
\* an invalid one raises ValueError inside the block.
AgentReturns(r) ==
    /\ rq[r].pc = "t_invoke"
    /\ \E out \in AgentResults :
         LET text == StripIfAny(ExtractText(out))
         IN  IF ValidText(text)
             THEN /\ session_cache' =
                       [session_cache EXCEPT ![rq[r].session_id] =
                          AddMessages(@, rq[r].input, text[1])]
                  /\ rq' = [rq EXCEPT ![r] =
                              [rq[r] EXCEPT !.body_ok = TRUE, !.pending = text[1],
                                        !.agent_out = Some(out),
                                        !.commits = Append(@, [path |-> "tool",
                                                               input |-> rq[r].input,
                                                               text |-> text[1]]),
                                        !.pc = "t_release"]]
             ELSE /\ rq' = [rq EXCEPT ![r] =
                              [rq[r] EXCEPT !.body_ok = FALSE, !.tool_failed = "validate",
                                        !.agent_out = Some(out),
                                        !.pc = "t_release"]]
                  /\ UNCHANGED session_cache
    /\ UNCHANGED <<ovars, fvars, use_mcp_in_chat>>

\* AgentRaises with the exception of the agent not caught by the tool
\* path's handler: it reaches the client.
AgentRaisesUncaught(r) ==
    /\ rq[r].pc \in {"t_invoke", "t_stream"}
    /\ rq' = [rq EXCEPT ![r] =
                IF rq[r].endpoint = "chat"
                THEN [rq[r] EXCEPT !.tool_failed = "generate", !.status = 500,
                               !.detail = Detail, !.pc = "done"]
                ELSE [rq[r] EXCEPT !.tool_failed = "generate",
                               !.events = @ \o <<Error("tool"),
                                                 Done("tool", rq[r].session_id)>>,
                               !.pc = "done"]]
    /\ UNCHANGED <<ovars, fvars, use_mcp_in_chat, session_cache>>

\* agent.ainvoke, or the iteration of agent.astream_events, raises: the
\* exception leaves the async with block.
AgentRaises(r) ==
    /\ rq[r].pc \in {"t_invoke", "t_stream"}
    /\ rq' = [rq EXCEPT ![r] =
                [rq[r] EXCEPT !.body_ok = FALSE, !.tool_failed = "generate",
                          !.pc = "t_release"]]
    /\ UNCHANGED <<ovars, fvars, use_mcp_in_chat, session_cache>>

\* gen, tool path: the next event of agent.astream_events; its text, if it
\* has one, goes through the filter, what the filter returns is yielded as a
\* token event, and the raw text is added to full_response_content.
AgentEvent(r) ==
    /\ rq[r].pc = "t_stream"
    /\ rq[r].source # <<>>
    /\ LET t == EventText(Head(rq[r].source))
           res == process(rq[r].think_filter, t[1])
       IN  rq' = [rq EXCEPT ![r] =
                    IF t = None
                    THEN [rq[r] EXCEPT !.source = Tail(@)]
                    ELSE [rq[r] EXCEPT !.source = Tail(@),
                                   !.think_filter = FilterOf(res),
                                   !.events = IF res.out # <<>>
                                              THEN Append(@, Token("tool", res.out))
                                              ELSE @,
                                   !.emitted = @ \/ res.out # <<>>,
                                   !.full_response_content = @ \o t[1]]]
    /\ UNCHANGED <<ovars, fvars, use_mcp_in_chat, session_cache>>

\* gen, tool path: the events are over; the filter is flushed, what it
\* returns is yielded as a token event and added to full_response_content.
AgentStreamEnds(r) ==
    /\ rq[r].pc = "t_stream"
    /\ rq[r].source = <<>>
    /\ LET res == flush(rq[r].think_filter)
       IN  rq' = [rq EXCEPT ![r] =
                    [rq[r] EXCEPT !.think_filter = FilterOf(res),
                              !.events = IF res.out # <<>>
                                         THEN Append(@, Token("tool", res.out))
                                         ELSE @,
                              !.emitted = @ \/ res.out # <<>>,
                              !.full_response_content = @ \o res.out,
                              !.pc = "t_validate"]]
    /\ UNCHANGED <<ovars, fvars, use_mcp_in_chat, session_cache>>

\* ToolValidate with the tool session not scoped by async with: the block is
\* left without __aexit__.
ToolValidateLeaksSession(r) ==
    /\ rq[r].pc = "t_validate"
    /\ LET clean_response == strip_thinking_tags(rq[r].full_response_content)
       IN  IF ValidStream(rq[r].emitted, clean_response)
           THEN /\ session_cache' =
                     [session_cache EXCEPT ![rq[r].session_id] =
                        AddMessages(@, rq[r].input, clean_response)]
                /\ rq' = [rq EXCEPT ![r] =
                            [rq[r] EXCEPT !.body_ok = TRUE,
                                      !.commits = Append(@, [path |-> "tool",
                                                             input |-> rq[r].input,
                                                             text |-> clean_response]),
                                      !.events = Append(@, Done("tool", rq[r].session_id)),
                                      !.pc = "done"]]
           ELSE /\ rq' = [rq EXCEPT ![r] =
                            [rq[r] EXCEPT !.body_ok = FALSE, !.tool_failed = "validate",
                                      !.pc = "p_start"]]
                /\ UNCHANGED session_cache
    /\ UNCHANGED <<ovars, fvars, use_mcp_in_chat>>

\* gen, tool path: full_response_content is stripped and validated; a valid
\* response is appended with the input to the history and the async with
\* block is left; an invalid one raises ValueError inside the block.
ToolValidate(r) ==
    /\ rq[r].pc = "t_validate"
    /\ LET clean_response == strip_thinking_tags(rq[r].full_response_content)
       IN  IF ValidStream(rq[r].emitted, clean_response)
           THEN /\ session_cache' =
                     [session_cache EXCEPT ![rq[r].session_id] =
                        AddMessages(@, rq[r].input, clean_response)]
                /\ rq' = [rq EXCEPT ![r] =
                            [rq[r] EXCEPT !.body_ok = TRUE,
                                      !.commits = Append(@, [path |-> "tool",
                                                             input |-> rq[r].input,
                                                             text |-> clean_response]),
                                      !.pc = "t_release"]]
           ELSE /\ rq' = [rq EXCEPT ![r] =
                            [rq[r] EXCEPT !.body_ok = FALSE, !.tool_failed = "validate",
                                      !.pc = "t_release"]]
                /\ UNCHANGED session_cache
    /\ UNCHANGED <<ovars, fvars, use_mcp_in_chat>>

\* ToolReleased with a failed tool path reported to the client instead of
\* falling through to the plain path.
ToolReleasedReportsFailure(r) ==
    /\ rq[r].pc = "t_release"
    /\ rq' = [rq EXCEPT ![r] =
                IF rq[r].endpoint = "chat"
                THEN IF rq[r].body_ok
                     THEN [rq[r] EXCEPT !.released = @ + 1, !.status = 200,
                                    !.text = rq[r].pending, !.pc = "done"]
                     ELSE [rq[r] EXCEPT !.released = @ + 1, !.status = 500,
                                    !.detail = Detail, !.pc = "done"]
                ELSE IF rq[r].body_ok
                     THEN [rq[r] EXCEPT !.released = @ + 1,
                                    !.events = Append(@, Done("tool", rq[r].session_id)),
                                    !.pc = "done"]
                     ELSE [rq[r] EXCEPT !.released = @ + 1,
                                    !.events = @ \o <<Error("tool"),
                                                      Done("tool", rq[r].session_id)>>,
                                    !.pc = "done"]]
    /\ UNCHANGED <<ovars, fvars, use_mcp_in_chat, session_cache>>

\* __aexit__ returns. After a block that ended well chat returns 200 with the
\* text and gen yields done; an exception of the block goes on to except
\* Exception, which falls through to the plain path.
ToolReleased(r) ==
    /\ rq[r].pc = "t_release"
    /\ rq' = [rq EXCEPT ![r] =
                IF ~rq[r].body_ok
                THEN [rq[r] EXCEPT !.released = @ + 1, !.pc = "p_start"]
                ELSE IF rq[r].endpoint = "chat"
                THEN [rq[r] EXCEPT !.released = @ + 1, !.status = 200,
                               !.text = rq[r].pending, !.pc = "done"]
                ELSE [rq[r] EXCEPT !.released = @ + 1,
                               !.events = Append(@, Done("tool", rq[r].session_id)),
                               !.pc = "done"]]
    /\ UNCHANGED <<ovars, fvars, use_mcp_in_chat, session_cache>>

\* __aexit__ raises while the tool session is released: the block is left,
\* the exception reaches except Exception, which falls through to the plain
\* path, whatever the block did before.
ToolReleaseFails(r) ==
    /\ rq[r].pc = "t_release"
    /\ rq' = [rq EXCEPT ![r] =
                [rq[r] EXCEPT !.tool_failed = IF rq[r].body_ok THEN "release" ELSE rq[r].tool_failed,
                          !.released = @ + 1,
                          !.pc = "p_start"]]
    /\ UNCHANGED <<ovars, fvars, use_mcp_in_chat, session_cache>>

\* PlainStart with the filter and the accumulators of the tool path used on:
\* gen without the assignments of lines 338-340.
PlainStartKeepsFilter(r) ==
    /\ rq[r].pc = "p_start"
    /\ \E src \in IF rq[r].endpoint = "chat" THEN {<<>>} ELSE ChainStreams :
         rq' = [rq EXCEPT ![r] =
                  [rq[r] EXCEPT !.read = Messages(rq[r].session_id),
                            !.source = src,
                            !.pc = IF rq[r].endpoint = "chat" THEN "p_invoke"
                                   ELSE "p_stream"]]
    /\ created' = created \cup {rq[r].session_id}
    /\ UNCHANGED <<xvars, fvars, use_mcp_in_chat, session_cache>>

\* The plain path starts: create_chain, the history is read, and chat awaits
\* chain.ainvoke, gen iterates chain.astream with a fresh filter and fresh
\* accumulators.
PlainStart(r) ==
    /\ rq[r].pc = "p_start"
    /\ \E src \in IF rq[r].endpoint = "chat" THEN {<<>>} ELSE ChainStreams :
         rq' = [rq EXCEPT ![r] =
                  [rq[r] EXCEPT !.read = Messages(rq[r].session_id),
                            !.source = src,
                            !.think_filter = NewFilter,
                            !.emitted = FALSE,
                            !.full_response_content = <<>>,
                            !.pc = IF rq[r].endpoint = "chat" THEN "p_invoke"
                                   ELSE "p_stream"]]
    /\ created' = created \cup {rq[r].session_id}
    /\ UNCHANGED <<xvars, fvars, use_mcp_in_chat, session_cache>>

\* chat: chain.ainvoke returns out; it is stripped and validated; a valid
\* text is appended with the input to the history and returned with 200, an
\* invalid one raises ValueError, which becomes HTTP 500.
ChainReturns(r) ==
    /\ rq[r].pc = "p_invoke"
    /\ \E raw \in ChainOutputs :
         LET out == strip_thinking_tags(raw)
         IN  IF ValidText(Some(out))
             THEN /\ session_cache' =
                       [session_cache EXCEPT ![rq[r].session_id] =
                          AddMessages(@, rq[r].input, out)]
                  /\ rq' = [rq EXCEPT ![r] =
                              [rq[r] EXCEPT !.status = 200, !.text = out,
                                        !.raw = raw,
                                        !.commits = Append(@, [path |-> "plain",
                                                               input |-> rq[r].input,
                                                               text |-> out]),
                                        !.pc = "done"]]
             ELSE /\ rq' = [rq EXCEPT ![r] =
                              [rq[r] EXCEPT !.status = 500, !.detail = Detail,
                                        !.raw = raw,
                                        !.pc = "done"]]
                  /\ UNCHANGED session_cache
    /\ UNCHANGED <<ovars, fvars, use_mcp_in_chat>>

\* ChainRaises with the error handler leaving out the terminal event.
ChainRaisesErrorOnly(r) ==
    /\ rq[r].pc \in {"p_invoke", "p_stream"}
    /\ rq' = [rq EXCEPT ![r] =
                IF rq[r].endpoint = "chat"
                THEN [rq[r] EXCEPT !.status = 500, !.detail = Detail, !.pc = "done"]
                ELSE [rq[r] EXCEPT !.events = Append(@, Error("plain")),
                               !.pc = "done"]]
    /\ UNCHANGED <<ovars, fvars, use_mcp_in_chat, session_cache>>

\* chain.ainvoke, or the iteration of chain.astream, raises: chat answers
\* HTTP 500 with a detail field, gen yields error and then done.
ChainRaises(r) ==
    /\ rq[r].pc \in {"p_invoke", "p_stream"}
    /\ rq' = [rq EXCEPT ![r] =
                IF rq[r].endpoint = "chat"
                THEN [rq[r] EXCEPT !.status = 500, !.detail = Detail, !.pc = "done"]
                ELSE [rq[r] EXCEPT !.events = @ \o <<Error("plain"),
                                                 Done("plain", rq[r].session_id)>>,
                               !.pc = "done"]]
    /\ UNCHANGED <<ovars, fvars, use_mcp_in_chat, session_cache>>

\* gen, plain path: the next chunk of chain.astream is added to
\* full_response_content and goes through the filter; what the filter
\* returns is yielded as a token event.
ChainChunk(r) ==
    /\ rq[r].pc = "p_stream"
    /\ rq[r].source # <<>>
    /\ LET chunk == Head(rq[r].source)
           res == process(rq[r].think_filter, chunk)
       IN  rq' = [rq EXCEPT ![r] =
                    [rq[r] EXCEPT !.source = Tail(@),
                              !.think_filter = FilterOf(res),
                              !.events = IF res.out # <<>>
                                         THEN Append(@, Token("plain", res.out))
                                         ELSE @,
                              !.emitted = @ \/ res.out # <<>>,
                              !.full_response_content = @ \o chunk,
                              !.raw = @ \o chunk]]
    /\ UNCHANGED <<ovars, fvars, use_mcp_in_chat, session_cache>>

\* ChainStreamEnds with the done event yielded as soon as the chunks are
\* over, before the response is validated and saved.
ChainStreamEndsDoneFirst(r) ==
    /\ rq[r].pc = "p_stream"
    /\ rq[r].source = <<>>
    /\ LET res == flush(rq[r].think_filter)
       IN  rq' = [rq EXCEPT ![r] =
                    [rq[r] EXCEPT !.think_filter = FilterOf(res),
                              !.events = (IF res.out # <<>>
                                          THEN Append(@, Token("plain", res.out))
                                          ELSE @)
                                         \o <<Done("plain", rq[r].session_id)>>,
                              !.emitted = @ \/ res.out # <<>>,
                              !.full_response_content = @ \o res.out,
                              !.pc = "p_validate"]]
    /\ UNCHANGED <<ovars, fvars, use_mcp_in_chat, session_cache>>

\* gen, plain path: the chunks are over; the filter is flushed, what it
\* returns is yielded as a token event and added to full_response_content.
ChainStreamEnds(r) ==
    /\ rq[r].pc = "p_stream"
    /\ rq[r].source = <<>>
    /\ LET res == flush(rq[r].think_filter)
       IN  rq' = [rq EXCEPT ![r] =
                    [rq[r] EXCEPT !.think_filter = FilterOf(res),
                              !.events = IF res.out # <<>>
                                         THEN Append(@, Token("plain", res.out))
                                         ELSE @,
                              !.emitted = @ \/ res.out # <<>>,
                              !.full_response_content = @ \o res.out,
                              !.pc = "p_validate"]]
    /\ UNCHANGED <<ovars, fvars, use_mcp_in_chat, session_cache>>

\* PlainValidate with an invalid response answered by another attempt of
\* the plain path instead of an error.
PlainValidateRetries(r) ==
    /\ rq[r].pc = "p_validate"
    /\ LET clean_response == strip_thinking_tags(rq[r].full_response_content)
       IN  IF ValidStream(rq[r].emitted, clean_response)
           THEN /\ session_cache' =
                     [session_cache EXCEPT ![rq[r].session_id] =
                        AddMessages(@, rq[r].input, clean_response)]
                /\ rq' = [rq EXCEPT ![r] =
                            [rq[r] EXCEPT !.events = Append(@, Done("plain", rq[r].session_id)),
                                      !.commits = Append(@, [path |-> "plain",
                                                             input |-> rq[r].input,
                                                             text |-> clean_response]),
                                      !.pc = "done"]]
           ELSE /\ rq' = [rq EXCEPT ![r] = [rq[r] EXCEPT !.pc = "p_start"]]
                /\ UNCHANGED session_cache
    /\ UNCHANGED <<ovars, fvars, use_mcp_in_chat>>

\* gen, plain path: full_response_content is stripped and validated; a valid
\* response is appended with the input to the history and done is yielded;
\* an invalid one raises ValueError: error, then done.
PlainValidate(r) ==
    /\ rq[r].pc = "p_validate"
    /\ LET clean_response == strip_thinking_tags(rq[r].full_response_content)
       IN  IF ValidStream(rq[r].emitted, clean_response)
           THEN /\ session_cache' =
                     [session_cache EXCEPT ![rq[r].session_id] =
                        AddMessages(@, rq[r].input, clean_response)]
                /\ rq' = [rq EXCEPT ![r] =
                            [rq[r] EXCEPT !.events = Append(@, Done("plain", rq[r].session_id)),
                                      !.commits = Append(@, [path |-> "plain",
                                                             input |-> rq[r].input,
                                                             text |-> clean_response]),
                                      !.pc = "done"]]
           ELSE /\ rq' = [rq EXCEPT ![r] =
                            [rq[r] EXCEPT !.events = @ \o <<Error("plain"),
                                                        Done("plain", rq[r].session_id)>>,
                                      !.pc = "done"]]
                /\ UNCHANGED session_cache
    /\ UNCHANGED <<ovars, fvars, use_mcp_in_chat>>

Init ==
    /\ FilterIdle
    /\ use_mcp_in_chat \in BOOLEAN
    /\ session_cache = [s \in Sessions |-> <<>>]
    /\ created = {}
    /\ rq = [r \in Reqs |-> Idle]
    /\ ConfigIdle
    /\ AuthIdle
    /\ ToolsIdle

Next ==
    \E r \in Reqs :
        \/ Arrive(r)
        \/ ToolAcquired(r)
        \/ ToolAcquireFails(r)
        \/ AgentReturns(r)
        \/ AgentRaises(r)
        \/ AgentEvent(r)
        \/ AgentStreamEnds(r)
        \/ ToolValidate(r)
        \/ ToolReleased(r)
        \/ ToolReleaseFails(r)
        \/ PlainStart(r)
        \/ ChainReturns(r)
        \/ ChainRaises(r)
        \/ ChainChunk(r)
        \/ ChainStreamEnds(r)
        \/ PlainValidate(r)

Spec == Init /\ [][Next]_vars

\* A history left by an earlier request: one complete pair.
EarlierTurns == AddMessages(<<>>, <<"q", "0">>, OK)

\* One request served to its end, on a session that is new or has history.
InitLive ==
    /\ FilterIdle
    /\ use_mcp_in_chat \in BOOLEAN
    /\ \E h \in {<<>>, EarlierTurns} :
          /\ session_cache = [s \in Sessions |-> IF s = "s1" THEN h ELSE <<>>]
          /\ created = IF h = <<>> THEN {} ELSE {"s1"}
    /\ rq = [r \in Reqs |-> Idle]
    /\ ConfigIdle
    /\ AuthIdle
    /\ ToolsIdle

NextLive ==
    \/ Arrive(1)
    \/ ToolAcquired(1)
    \/ ToolAcquireFails(1)
    \/ AgentReturns(1)
    \/ AgentRaises(1)
    \/ AgentEvent(1)
    \/ AgentStreamEnds(1)
    \/ ToolValidate(1)
    \/ ToolReleased(1)
    \/ ToolReleaseFails(1)
    \/ PlainStart(1)
    \/ ChainReturns(1)
    \/ ChainRaises(1)
    \/ ChainChunk(1)
    \/ ChainStreamEnds(1)
    \/ PlainValidate(1)

\* Every awaited call returns or raises in the end and the event loop runs
\* every task that can run: a request that can take a step takes one.
SpecLive == InitLive /\ [][NextLive]_vars /\ WF_vars(NextLive)

\* The JSON bodies a client can post, as the sets of their field names.
Bodies == SUBSET (SchemaFields \cup {"system"})

\* ChatRequest accepts the body: every required field is there and no field
\* is outside the schema (extra='forbid').
ValidBody(b) == Required \subseteq b /\ b \subseteq SchemaFields

\* Reject with a schema that ignores unknown fields: a body that has the
\* required fields and one more reaches the handler.
RejectOnlyMissing(r) ==
    /\ rq[r].pc = "idle"
    /\ \A q \in Reqs : q < r => rq[q].pc # "idle"
    /\ \E ep \in {"chat", "stream"}, b \in Bodies :
         /\ ~ValidBody(b)
         /\ rq' = [rq EXCEPT ![r] =
                     IF Required \subseteq b
                     THEN [Idle EXCEPT !.endpoint = ep, !.body = b,
                                       !.session_id = "s1", !.input = InputOf(r),
                                       !.pc = "p_start"]
                     ELSE [Idle EXCEPT !.endpoint = ep, !.body = b, !.status = 422,
                                       !.pc = "rejected"]]
    /\ UNCHANGED <<ovars, fvars, use_mcp_in_chat, session_cache>>

\* A body ChatRequest does not accept arrives at /v1/chat or /v1/chat/stream:
\* the framework answers 422 and neither chat nor chat_stream is called.
Reject(r) ==
    /\ rq[r].pc = "idle"
    /\ \A q \in Reqs : q < r => rq[q].pc # "idle"
    /\ \E ep \in {"chat", "stream"}, b \in Bodies :
         /\ ~ValidBody(b)
         /\ rq' = [rq EXCEPT ![r] =
                     [Idle EXCEPT !.endpoint = ep, !.body = b, !.status = 422,
                                  !.pc = "rejected"]]
    /\ UNCHANGED <<ovars, fvars, use_mcp_in_chat, session_cache>>

\* The program points inside the async with block of the tool session.
InBlock == {"t_invoke", "t_stream", "t_validate", "t_release"}

\* The program points at which gen is suspended in an await or a yield.
Suspended == {"t_acquire", "t_stream", "t_validate", "t_release",
              "p_stream", "p_validate"}

\* The client of /v1/chat/stream disconnects while gen is suspended: gen is
\* cancelled there (CancelledError or GeneratorExit, which except Exception
\* does not catch); an async with block it is in is left through __aexit__.
Disconnect(r) ==
    /\ rq[r].endpoint = "stream"
    /\ rq[r].pc \in Suspended
    /\ rq' = [rq EXCEPT ![r] =
                [rq[r] EXCEPT !.released = IF rq[r].pc \in InBlock THEN @ + 1 ELSE @,
                          !.pc = "cancelled"]]
    /\ UNCHANGED <<ovars, fvars, use_mcp_in_chat, session_cache>>

NextClient ==
    \/ NextLive
    \/ Reject(1)
    \/ Disconnect(1)

\* One request of a client that may post any body and may disconnect.
SpecClient == InitLive /\ [][NextClient]_vars

\* The steps of request r that do not wait for a generation call: the code's
\* own steps and the acquisition and release of the tool session.
OwnStep(r) ==
    \/ Arrive(r)
    \/ ToolAcquired(r)
    \/ ToolAcquireFails(r)
    \/ ToolValidate(r)
    \/ ToolReleased(r)
    \/ ToolReleaseFails(r)
    \/ PlainStart(r)
    \/ PlainValidate(r)

\* One request served while the generation backends answer when they like,
\* or never: agent.ainvoke, agent.astream_events, chain.ainvoke and
\* chain.astream are awaited as they are (no wait_for, no timeout argument),
\* so only the other steps are sure to be taken.
SpecBackendMayHang == InitLive /\ [][NextLive]_vars /\ WF_vars(OwnStep(1))

\* ------------------------------------------------ building the LLM

\* The number of LLMs a configuration run builds.
MaxCalls == 2

\* The models settings.chat_model_id may name: the default, or the value of
\* CHAT_MODEL_ID in the environment.
ConfiguredModels == {DefaultModel, "m0"}

\* A ChatOpenAI built on `path` for a request with the given overrides.
Llm(path, model_in, temperature_in, model, temperature) ==
    [path |-> path, model_in |-> model_in, temperature_in |-> temperature_in,
     model |-> model, temperature |-> temperature]

\* chat and chat_stream, tool path: the route resolves the overrides against
\* the configuration and hands them to build_agent_with_mcp, which resolves
\* them again and builds the ChatOpenAI.
ToolLlm ==
    /\ use_mcp_in_chat
    /\ Len(llms) < MaxCalls
    /\ \E model \in ModelOverrides, temperature \in TemperatureOverrides :
         LET m == Some(ModelName(model, chat_model_id))
             t == Some(Temp(temperature))
         IN  llms' = Append(llms, Llm("tool", model, temperature,
                                      ModelName(m, chat_model_id), Temp(t)))
    /\ UNCHANGED <<fvars, cvars, chat_model_id, avars, tvars, created>>

\* chat and chat_stream, plain path: create_chain resolves the overrides
\* against the configuration and builds the ChatOpenAI.
PlainLlm ==
    /\ Len(llms) < MaxCalls
    /\ \E model \in ModelOverrides, temperature \in TemperatureOverrides :
         llms' = Append(llms, Llm("plain", model, temperature,
                                  ModelName(model, chat_model_id), Temp(temperature)))
    /\ UNCHANGED <<fvars, cvars, chat_model_id, avars, tvars, created>>

ConfigInit ==
    /\ FilterIdle
    /\ use_mcp_in_chat \in BOOLEAN
    /\ session_cache = [s \in Sessions |-> <<>>]
    /\ created = {}
    /\ rq = [r \in Reqs |-> Idle]
    /\ chat_model_id \in ConfiguredModels
    /\ llms = <<>>
    /\ AuthIdle
    /\ ToolsIdle

ConfigNext == ToolLlm \/ PlainLlm

SpecConfig == ConfigInit /\ [][ConfigNext]_vars

\* ------------------------------------------------ calls of cloudrun_auth

\* The number of calls an authentication run makes.
MaxAuthCalls == 3

\* What a call did: the function and its argument, the time, the cache it
\* found and left, the fetches it attempted, and what it returned (headers
\* is None for get_id_token_for_url).
Call(fn, url, t, before, res, headers) ==
    [fn |-> fn, url |-> url, at |-> t, before |-> before, after |-> res.cache,
     attempts |-> res.attempts, token |-> res.token, headers |-> headers]

\* One call of get_id_token_for_url, some time after the call before.
GetIdTokenForUrl ==
    /\ Len(calls) < MaxAuthCalls
    /\ \E url \in UrlArgs, d \in Delays, m1 \in FetchOutcomes, m2 \in ImpersonationOutcomes :
         \E res \in {get_id_token_for_url(url, token_cache, now + d, m1, m2)} :
            /\ now' = now + d
            /\ token_cache' = res.cache
            /\ calls' = Append(calls, Call("get_id_token_for_url", url, now + d,
                                           token_cache, res, None))
    /\ UNCHANGED <<fvars, cvars, gvars, tvars, created>>

\* One call of get_auth_headers, some time after the call before:
\* get_id_token_for_url is called only for a base_url that is not None and
\* not empty.
GetAuthHeaders ==
    /\ Len(calls) < MaxAuthCalls
    /\ \E base_url \in UrlArgs, d \in Delays, m1 \in FetchOutcomes, m2 \in ImpersonationOutcomes :
         \E res \in {IF base_url # None /\ base_url[1] # <<>>
                     THEN get_id_token_for_url(base_url, token_cache, now + d, m1, m2)
                     ELSE [token |-> None, cache |-> token_cache, attempts |-> <<>>]} :
            /\ now' = now + d
            /\ token_cache' = res.cache
            /\ calls' = Append(calls, Call("get_auth_headers", base_url, now + d,
                                           token_cache, res, Some(Headers(res.token))))
    /\ UNCHANGED <<fvars, cvars, gvars, tvars, created>>

AuthInit ==
    /\ FilterIdle
    /\ ChatIdle
    /\ ConfigIdle
    /\ AuthIdle
    /\ ToolsIdle

AuthNext == GetIdTokenForUrl \/ GetAuthHeaders

SpecAuth == AuthInit /\ [][AuthNext]_vars

\* ------------------------------------------------ calls of doc_get

\* The paths a caller passes: none, the empty one, the whitelisted one and
\* spellings of it, an absolute one, ones with "..", and another file.
PathArgs ==
    {None, Some(<<>>), Some(<<Resume>>), Some(<<".", "/", Resume>>),
     Some(<<Resume, "/">>), Some(<<"/", Resume>>),
     Some(DotDot \o <<"/", Secret>>),
     Some(<<Resume, "/">> \o DotDot \o <<"/", Secret>>), Some(<<Secret>>)}

\* A URI of an object of a bucket.
Gs(bucket, blob) == GsScheme \o bucket \o <<"/">> \o blob

\* The URIs a caller passes or a retrieval names: none, the empty one,
\* objects of the configured bucket, an object of another bucket, a bucket
\* without an object, a blob path with "..", a bucket spelled around a
\* second scheme, and a text that is not a gs:// URI.
OtherBucket == <<"other">>
UriArgs ==
    {None, Some(<<>>), Some(Gs(gcs_bucket_name, <<Resume>>)),
     Some(Gs(gcs_bucket_name, <<Secret>>)), Some(Gs(OtherBucket, <<Secret>>)),
     Some(GsScheme \o gcs_bucket_name),
     Some(Gs(gcs_bucket_name, DotDot \o <<"/", Secret>>)),
     Some(GsScheme \o Gs(OtherBucket, <<Secret>>)),
     Some(<<Secret>>)}

\* The rag_file_id arguments: none, file names, and gs:// URIs.
RagArgs ==
    {None, Some(<<Resume>>), Some(<<Secret>>),
     Some(Gs(gcs_bucket_name, <<Secret>>)), Some(Gs(OtherBucket, <<Secret>>))}

\* A context of a retrieval: its source URI, and whether its metadata names
\* the id.
Ctx(source_uri, metadata) == [source_uri |-> source_uri, metadata |-> metadata]

\* What rag.retrieval_query does: it raises, or returns contexts.
Retrievals ==
    {"raise", <<>>,
     <<Ctx(None, FALSE)>>,
     <<Ctx(Some(Gs(gcs_bucket_name, <<Resume>>)), FALSE)>>,
     <<Ctx(Some(Gs(OtherBucket, <<Secret>>)), FALSE),
       Ctx(Some(Gs(gcs_bucket_name, <<Secret>>)), TRUE)>>,
     <<Ctx(Some(Gs(OtherBucket, <<Resume>>)), FALSE)>>,
     <<Ctx(Some(Gs(gcs_bucket_name, DotDot \o <<"/", Secret>>)), FALSE)>>}

\* The number of calls of doc_get in a run; a call keeps nothing for the
\* next one.
MaxDocCalls == 1

\* One call of doc_get; doc_calls holds the calls, each with its arguments
\* and what it did.
DocGet ==
    /\ Len(doc_calls) < MaxDocCalls
    /\ \E rag_file_id \in RagArgs, gcs_uri \in UriArgs, path \in PathArgs,
          retrieval \in Retrievals, exists \in BOOLEAN :
         doc_calls' = Append(doc_calls,
                             [rag_file_id |-> rag_file_id, gcs_uri |-> gcs_uri, path |-> path,
                              did |-> doc_get(rag_file_id, gcs_uri, path, retrieval, exists)])
    /\ UNCHANGED <<fvars, cvars, gvars, avars, mw_calls, created>>

DocInit ==
    /\ FilterIdle
    /\ ChatIdle
    /\ ConfigIdle
    /\ AuthIdle
    /\ ToolsIdle

DocNext == DocGet

SpecDoc == DocInit /\ [][DocNext]_vars

\* ------------------------------------------------ the vLLM middleware

\* The classes of what client.chat.completions.create raises, each with its
\* base class as the client library declares it: APITimeoutError is an
\* APIConnectionError, RateLimitError and the other status errors are
\* APIStatusError, and all are APIError.
BaseOf ==
    [APITimeoutError |-> "APIConnectionError",
     APIConnectionError |-> "APIError",
     RateLimitError |-> "APIStatusError",
     BadRequestError |-> "APIStatusError",
     InternalServerError |-> "APIStatusError",
     APIStatusError |-> "APIError",
     APIError |-> "Exception",
     ValueError |-> "Exception",
     Exception |-> "BaseException"]

\* isinstance(e, cls) for an e of class c
RECURSIVE IsInstance(_, _)
IsInstance(c, cls) ==
    \/ c = cls
    \/ c \in DOMAIN BaseOf /\ IsInstance(BaseOf[c], cls)

\* What the upstream call does: it raises an error of a class (a status
\* error carries its status_code, the others have none), or it returns a
\* response with or without choices.
Raised(class, status_code) ==
    [kind |-> "raise", class |-> class, status_code |-> status_code, choices |-> 0]
Returned200(choices) ==
    [kind |-> "return", class |-> "", status_code |-> None, choices |-> choices]
Upstream ==
    {Raised("APIConnectionError", None), Raised("APITimeoutError", None),
     Raised("RateLimitError", Some(429)), Raised("BadRequestError", Some(400)),
     Raised("InternalServerError", Some(500)), Raised("APIStatusError", Some(503)),
     Raised("APIError", None), Raised("ValueError", None), Raised("Exception", None),
     Returned200(0), Returned200(1)}

\* The except clauses of chat_endpoint in source order, each with the
\* status it answers; 0 stands for the status_code of the error, 502 when
\* it has none.
Handlers ==
    <<[class |-> "APIConnectionError", status |-> 503],
      [class |-> "APITimeoutError", status |-> 504],
      [class |-> "RateLimitError", status |-> 429],
      [class |-> "APIError", status |-> 0],
      [class |-> "Exception", status |-> 500]>>

\* The clause that handles an error of class c: the first one, in source
\* order, whose class the error is an instance of.
Handler(c) ==
    CHOOSE h \in 1..Len(Handlers) :
        /\ IsInstance(c, Handlers[h].class)
        /\ \A g \in 1..(h - 1) : ~IsInstance(c, Handlers[g].class)

\* The HTTP status chat_endpoint answers with.
Status(up) ==
    IF up.kind = "raise"
    THEN LET h == Handlers[Handler(up.class)]
         IN  IF h.status # 0 THEN h.status
             ELSE IF up.status_code # None THEN up.status_code[1] ELSE 502
    ELSE IF up.choices = 0 THEN 502
    ELSE 200

\* The number of requests to /chat in a run.
MaxMwCalls == 2

\* One request to /chat: mw_calls holds, for each request, what the upstream
\* call did, the clause that handled it (0 when nothing was raised) and the
\* status answered.
ChatEndpoint ==
    /\ Len(mw_calls) < MaxMwCalls
    /\ \E up \in Upstream :
         mw_calls' = Append(mw_calls,
                            [upstream |-> up,
                             handler |-> IF up.kind = "raise" THEN Handler(up.class) ELSE 0,
                             status |-> Status(up)])
    /\ UNCHANGED <<fvars, cvars, gvars, avars, doc_calls, created>>

MiddlewareInit ==
    /\ FilterIdle
    /\ ChatIdle
    /\ ConfigIdle
    /\ AuthIdle
    /\ ToolsIdle

MiddlewareNext == ChatEndpoint

SpecMiddleware == MiddlewareInit /\ [][MiddlewareNext]_vars

\* ---------------------------------------------------------------- claims

\* The text pieces of an input, in order, with `ins` telling whether the
\* scan is inside a marked region: every start marker is closed, no end
\* marker stands outside a region, and the text outside the regions holds no
\* marker of its own (the two halves of a start marker do not follow each
\* other there).
RECURSIVE WellFormedFrom(_, _)
WellFormedFrom(ps, ins) ==
    IF ps = <<>> THEN ~ins
    ELSE LET p == Head(ps)
         IN  IF ins
             THEN WellFormedFrom(Tail(ps), p \notin {ENDTHINK, Region})
             ELSE /\ p # ENDTHINK
                  /\ ~(/\ p = Prefix(THINK, 4)
                       /\ Len(ps) > 1
                       /\ ps[2] = Suffix(THINK, 4))
                  /\ WellFormedFrom(Tail(ps), p = THINK)

WellFormed(ps) == WellFormedFrom(ps, FALSE)

\* The number of marked regions of a well-formed input.
Regions(ps) == Cardinality({i \in 1..Len(ps) : ps[i] \in {ENDTHINK, Region}})

\* The text of a well-formed input that lies outside its regions, without
\* the whitespace that directly follows an end marker. mode is "out" in
\* ordinary text, "in" inside a region, "ws" directly behind an end marker.
RECURSIVE OutsideFrom(_, _)
OutsideFrom(ps, mode) ==
    IF ps = <<>> THEN <<>>
    ELSE LET p == Head(ps)
         IN  IF mode = "in"
             THEN OutsideFrom(Tail(ps), IF p \in {ENDTHINK, Region} THEN "ws" ELSE "in")
             ELSE IF p = THINK THEN OutsideFrom(Tail(ps), "in")
             ELSE IF p = Region THEN OutsideFrom(Tail(ps), "ws")
             ELSE IF mode = "ws" /\ IsBlank(p) THEN OutsideFrom(Tail(ps), "ws")
             ELSE p \o OutsideFrom(Tail(ps), "out")

OutsideText(ps) == OutsideFrom(ps, "out")

\* C1: for every input and every fragmentation, the outputs of process and
\* flush, concatenated, equal strip_thinking_tags of the whole input.
C1_StreamEqualsOneShot ==
    flushed => yielded = strip_thinking_tags(Flatten(pieces))

\* C2, as claimed: for an input of well-formed regions and any
\* fragmentation, the output holds neither marker string and no character
\* from inside a region.
C2_NoMarkerInOutput ==
    (flushed /\ WellFormed(pieces)) =>
        /\ ~Contains(yielded, THINK)
        /\ ~Contains(yielded, ENDTHINK)
        /\ yielded = OutsideText(pieces)

\* C2, amended: for an input of well-formed regions and any fragmentation,
\* the output is exactly the text outside the regions, without the
\* whitespace directly behind each end marker; nothing from inside a region
\* and no marker of the input is emitted. (A marker string can still be
\* formed where the text before a region joins the text behind it.)
C2_OnlyOutsideText ==
    (flushed /\ WellFormed(pieces)) => yielded = OutsideText(pieces)

\* C2's case: a well-formed input with two regions was filtered and text
\* came out.
C2_Witness ==
    /\ flushed
    /\ WellFormed(pieces)
    /\ Regions(pieces) = 2
    /\ yielded # <<>>

\* The generation paths' program points.
ToolPcs == {"t_acquire", "t_invoke", "t_stream", "t_validate", "t_release"}
PlainPcs == {"p_start", "p_invoke", "p_stream", "p_validate"}

\* The commits of request r on a path.
CommitsOn(r, path) == {i \in 1..Len(rq[r].commits) : rq[r].commits[i].path = path}

\* The number of user turns of history h that carry the input of request r.
UserTurns(r, h) ==
    Cardinality({i \in 1..Len(h) : h[i].role = "user" /\ h[i].content = InputOf(r)})

\* Request r ended with an error signal: HTTP 500, or an error event.
EndedInError(r) ==
    /\ rq[r].pc = "done"
    /\ \/ rq[r].status = 500
       \/ \E i \in 1..Len(rq[r].events) : rq[r].events[i].event = "error"

\* Request r ended well: HTTP 200, or done with no error event.
EndedWell(r) == rq[r].pc = "done" /\ ~EndedInError(r)

\* C3: a request appends at most one user/assistant pair, and a tool path
\* that was abandoned for the plain path has appended nothing, wherever the
\* tool path failed (the release of the tool session included).
C3_AtMostOnePair ==
    \A r \in Reqs :
        /\ UserTurns(r, session_cache[rq[r].session_id]) <= 1
        /\ (rq[r].tool_failed # "no" /\ rq[r].pc \in PlainPcs \cup {"done"})
              => UserTurns(r, session_cache[rq[r].session_id])
                   = Cardinality(CommitsOn(r, "plain"))

\* The backends put the letter x inside marked regions only.
InsideRegion == <<"x">>

\* C4: no assistant turn of any history holds a start marker or text the
\* backend produced inside a marked region, closed or not.
C4_HistoryHoldsNoRegionText ==
    \A s \in Sessions : \A i \in 1..Len(session_cache[s]) :
        session_cache[s][i].role = "assistant" =>
            /\ ~Contains(session_cache[s][i].content, THINK)
            /\ ~Contains(session_cache[s][i].content, InsideRegion)

\* C5: neither the text of a /v1/chat response nor the data of a token
\* event holds text the backend produced inside a marked region.
C5_ClientSeesNoRegionText ==
    \A r \in Reqs :
        /\ rq[r].status = 200 => ~Contains(rq[r].text, InsideRegion)
        /\ \A i \in 1..Len(rq[r].events) :
              rq[r].events[i].event = "token"
                 => ~Contains(rq[r].events[i].data, InsideRegion)

\* History h is a sequence of complete pairs: a user turn, then the reply
\* some request generated for it.
CompletePairs(h) ==
    /\ Len(h) % 2 = 0
    /\ \A i \in 1..Len(h) :
          IF i % 2 = 1
          THEN /\ h[i].role = "user"
               /\ i < Len(h)
               /\ h[i + 1].role = "assistant"
               /\ \E r \in Reqs : \E c \in 1..Len(rq[r].commits) :
                     /\ rq[r].commits[c].input = h[i].content
                     /\ rq[r].commits[c].text = h[i + 1].content
          ELSE h[i].role = "assistant"

\* C6: under any interleaving of requests every session history, and every
\* history a request has read, is a sequence of complete pairs.
C6_CompletePairs ==
    /\ \A s \in Sessions : CompletePairs(session_cache[s])
    /\ \A r \in Reqs : CompletePairs(rq[r].read)

\* C6's case: two requests on one session overlapped (the second read the
\* history before the first had appended) and both appended their pair.
C6_Witness ==
    /\ rq[1].session_id = rq[2].session_id
    /\ rq[1].commits # <<>>
    /\ rq[2].commits # <<>>
    /\ rq[2].read = <<>>
    /\ Len(session_cache[rq[1].session_id]) >= 4

\* The tool path of request r failed before its validation had completed.
FailedBeforeValidated(r) == rq[r].tool_failed \in {"acquire", "generate", "validate"}

\* C7: a tool path that raises before its validation has completed has
\* appended nothing to the history; if the plain path fails as well, the
\* history holds nothing of the request, and neither does the history any
\* request reads.
C7_FailedToolPathAppendsNothing ==
    \A r \in Reqs :
        FailedBeforeValidated(r) =>
            /\ UserTurns(r, session_cache[rq[r].session_id])
                 = Cardinality(CommitsOn(r, "plain"))
            /\ CommitsOn(r, "tool") = {}
            /\ EndedInError(r) =>
                  /\ \A s \in Sessions : UserTurns(r, session_cache[s]) = 0
                  /\ \A q \in Reqs : UserTurns(r, rq[q].read) = 0

\* C7's case: in streaming mode the tool path raised after a token event,
\* the plain path failed too, and a later request read the history.
C7_Witness ==
    /\ rq[1].endpoint = "stream"
    /\ rq[1].tool_failed = "generate"
    /\ \E i \in 1..Len(rq[1].events) :
          rq[1].events[i].event = "token" /\ rq[1].events[i].path = "tool"
    /\ EndedInError(1)
    /\ rq[2].session_id = rq[1].session_id
    /\ rq[2].pc \in {"p_invoke", "p_stream"}
    /\ rq[2].read = session_cache[rq[1].session_id]

\* C8: with tool augmentation enabled, when the tool path fails for any
\* reason and the plain path succeeds with text T, /v1/chat answers 200 with
\* T and exactly one pair (input, T) has been appended.
C8_FallbackAppendsOnePair ==
    \A r \in Reqs :
        (/\ rq[r].endpoint = "chat"
         /\ rq[r].tool_failed # "no"
         /\ rq[r].pc = "done"
         /\ rq[r].status = 200)
        => /\ CommitsOn(r, "plain") # {}
           /\ rq[r].text = rq[r].commits[Len(rq[r].commits)].text
           /\ UserTurns(r, session_cache[rq[r].session_id]) = 1

\* C9: in /v1/chat/stream, when the tool path fails and the plain path is
\* used, no token event of the tool path has been delivered to the client.
C9_NoTokenOfAbandonedPath ==
    \A r \in Reqs :
        (rq[r].endpoint = "stream" /\ rq[r].tool_failed # "no") =>
            \A i \in 1..Len(rq[r].events) :
                rq[r].events[i].event = "token" => rq[r].events[i].path = "plain"

\* C10: a request that ends with an error signal (HTTP 500, an error event)
\* has left the session history as it was.
C10_ErrorLeavesHistory ==
    \A r \in Reqs :
        EndedInError(r) => \A s \in Sessions : UserTurns(r, session_cache[s]) = 0

\* The positions of the events of one kind in the stream of request r.
EventsOf(r, kind) == {i \in 1..Len(rq[r].events) : rq[r].events[i].event = kind}

\* The stream of request r is complete: gen has returned.
StreamComplete(r) == rq[r].endpoint = "stream" /\ rq[r].pc = "done"

\* The path on which the stream of request r ended.
EndedOn(r) == rq[r].events[Len(rq[r].events)].path

\* C11: a stream that ran to completion holds exactly one done event and it
\* is the last event, whichever path ended the request and however; a stream
\* still running holds none.
C11_OneDoneLast ==
    \A r \in Reqs :
        rq[r].endpoint = "stream" =>
            IF rq[r].pc = "done"
            THEN /\ Cardinality(EventsOf(r, "done")) = 1
                 /\ rq[r].events[Len(rq[r].events)].event = "done"
            ELSE EventsOf(r, "done") = {}

\* C11's case: one stream succeeded on the tool path after token events,
\* another fell back and failed on the plain path after token events.
C11_Witness ==
    /\ StreamComplete(1)
    /\ rq[1].tool_failed = "no"
    /\ EndedOn(1) = "tool"
    /\ EventsOf(1, "token") # {}
    /\ StreamComplete(2)
    /\ rq[2].tool_failed = "validate"
    /\ EventsOf(2, "token") # {}
    /\ EventsOf(2, "error") # {}

\* The plain path of the complete stream of request r failed: the stream
\* ended on the plain path and the plain path appended nothing.
PlainStreamFailed(r) ==
    /\ StreamComplete(r)
    /\ EndedOn(r) = "plain"
    /\ CommitsOn(r, "plain") = {}

\* C12: a stream holds at most one error event; it holds one exactly when
\* the plain path, the last path attempted, failed; done follows the error
\* event immediately; a failed tool path followed by a plain path that
\* succeeded leaves no error event.
C12_ErrorIffPlainFails ==
    \A r \in Reqs :
        rq[r].endpoint = "stream" =>
            /\ Cardinality(EventsOf(r, "error")) <= 1
            /\ \A i \in EventsOf(r, "error") :
                  /\ i < Len(rq[r].events)
                  /\ rq[r].events[i + 1].event = "done"
                  /\ rq[r].events[i].path = "plain"
            /\ rq[r].pc # "done" => EventsOf(r, "error") = {}
            /\ rq[r].pc = "done" => (EventsOf(r, "error") # {} <=> PlainStreamFailed(r))
            /\ (rq[r].tool_failed # "no" /\ CommitsOn(r, "plain") # {})
                  => EventsOf(r, "error") = {}

\* C12's case: one stream's tool path raised during generation and its plain
\* path succeeded; another stream's tool session could not be acquired and
\* its plain path failed.
C12_Witness ==
    /\ StreamComplete(1)
    /\ rq[1].tool_failed = "generate"
    /\ CommitsOn(1, "plain") # {}
    /\ EventsOf(1, "error") = {}
    /\ StreamComplete(2)
    /\ rq[2].tool_failed = "acquire"
    /\ PlainStreamFailed(2)
    /\ EventsOf(2, "error") # {}

\* The part of the input already fed to the filter when rst is left.
Consumed(rst) == Prefix(Flatten(pieces), Len(Flatten(pieces)) - Len(rst))

\* The fed part ends inside a start marker: it ends with the first i
\* characters of <think> and the part left begins with the others.
CutInsideStart(rst) ==
    \E i \in 1..(Len(THINK) - 1) :
        /\ StartsAt(rst, Suffix(THINK, i), 0)
        /\ EndsWith(Consumed(rst), Prefix(THINK, i))

\* What filter f returns in all when rst is fed to it as one fragment and
\* it is flushed.
Finish(f, rst) ==
    IF rst = <<>> THEN flush(f).out
    ELSE LET r == process(f, rst) IN r.out \o flush(FilterOf(r)).out

\* C13: whenever a fragment ends inside a start marker, at any of its six
\* cut positions and after and before any text, the total output with the
\* marker's second piece in the next fragment equals the total output had
\* the marker been delivered inside one fragment.
C13_SplitStartMarker ==
    [][(~flushed' /\ CutInsideStart(rest'))
          => yielded' \o Finish(filt', rest') = yielded \o Finish(filt, rest)]_vars

\* C13's case: a fragment has ended inside a start marker that has text
\* before it and text behind it, and the filter holds the first piece back.
C13_Witness ==
    /\ ~flushed
    /\ CutInsideStart(rest)
    /\ Len(Consumed(rest)) > Len(THINK)
    /\ Len(rest) > Len(THINK)
    /\ yielded # <<>>
    /\ filt.buffer # <<>>
    /\ ~filt.in_thinking

\* The positions of a start marker of input ps that is never closed: the
\* pieces before it are well formed and no end marker follows it.
UnclosedAt(ps) ==
    {j \in 1..Len(ps) :
        /\ ps[j] = THINK
        /\ WellFormed(Prefix(ps, j - 1))
        /\ \A k \in (j + 1)..Len(ps) : ps[k] \notin {ENDTHINK, Region}}

\* The pieces of ps before its unclosed start marker.
BeforeUnclosed(ps) == Prefix(ps, (CHOOSE j \in UnclosedAt(ps) : TRUE) - 1)

\* C14: for an input with a start marker that is never closed, after any
\* fragmentation and flush the total output is exactly the text before that
\* marker, earlier closed regions removed; and a flush inside a region
\* returns nothing and leaves the buffer empty.
C14_UnclosedSuppressed ==
    /\ []((flushed /\ UnclosedAt(pieces) # {})
            => /\ yielded = OutsideText(BeforeUnclosed(pieces))
               /\ filt = NewFilter)
    /\ [][(filt.in_thinking /\ flushed')
            => (yielded' = yielded /\ filt' = NewFilter)]_vars

\* C14's case: text, a closed region, a start marker and text that is never
\* closed were filtered and flushed, and the text before came out.
C14_Witness ==
    /\ flushed
    /\ UnclosedAt(pieces) # {}
    /\ Regions(BeforeUnclosed(pieces)) = 1
    /\ pieces[Len(pieces)] = <<"a">>
    /\ yielded = <<"a">>

\* C15: on an input of well-formed regions both filters, the streaming one
\* under any fragmentation and the one-shot one, remove whitespace only where
\* it directly follows an end marker: whitespace at the start of the input,
\* before a start marker and inside ordinary text comes out unchanged.
C15_WhitespaceOnlyAfterEndMarker ==
    (flushed /\ WellFormed(pieces)) =>
        /\ yielded = OutsideText(pieces)
        /\ strip_thinking_tags(Flatten(pieces)) = OutsideText(pieces)

\* C15's case: an input with whitespace at its start, directly before a
\* region, and whitespace directly behind the region was filtered: the first
\* came out, the second did not.
C15_Witness ==
    /\ flushed
    /\ pieces = <<<<" ">>, Region, <<" ">>, <<"a">>>>
    /\ yielded = <<" ", "a">>
    /\ strip_thinking_tags(Flatten(pieces)) = <<" ", "a">>

\* What filtering left of the backend's output in the stream of request r
\* is empty or all whitespace.
NothingLeft(r) == IsBlank(strip_thinking_tags(rq[r].full_response_content))

\* C16: every assistant turn of every history, every reply a request
\* appended and every text /v1/chat returned with 200 is neither empty nor
\* all whitespace; a streaming path whose filtered output is empty or all
\* whitespace has failed and appended nothing.
C16_RepliesNotBlank ==
    /\ \A s \in Sessions : \A i \in 1..Len(session_cache[s]) :
          session_cache[s][i].role = "assistant" => ~IsBlank(session_cache[s][i].content)
    /\ \A r \in Reqs :
          /\ rq[r].status = 200 => ~IsBlank(rq[r].text)
          /\ \A c \in 1..Len(rq[r].commits) : ~IsBlank(rq[r].commits[c].text)
          /\ (rq[r].endpoint = "stream" /\ rq[r].pc = "t_release" /\ NothingLeft(r))
                => (~rq[r].body_ok /\ CommitsOn(r, "tool") = {})
          /\ (StreamComplete(r) /\ NothingLeft(r))
                => (EndedInError(r) /\ CommitsOn(r, "plain") = {})

\* C16's case: the tool path of a stream produced a marked region and nothing
\* else and has failed, and another request got 200 with a text that its
\* session history now holds.
C16_Witness ==
    /\ rq[1].endpoint = "stream"
    /\ rq[1].pc = "t_release"
    /\ rq[1].full_response_content = OnlyRegion
    /\ rq[1].tool_failed = "validate"
    /\ rq[2].endpoint = "chat"
    /\ rq[2].status = 200
    /\ rq[2].text = OK
    /\ \E c \in 1..Len(rq[2].commits) : rq[2].commits[c].text = OK
    /\ rq[2].session_id = "s2"
    /\ Len(session_cache["s2"]) = 2

\* The tool path of request r has failed and the plain path has not begun.
ToolPathFailed(r) ==
    /\ FailedBeforeValidated(r)
    /\ rq[r].pc \in {"t_release", "p_start"}

\* The plain path of request r is generating, from the input of the request
\* and a history it has read.
PlainAttempt(r) ==
    /\ rq[r].pc \in {"p_invoke", "p_stream"}
    /\ rq[r].input = InputOf(r)

\* C17: with tool augmentation enabled, a tool path that fails (acquisition
\* raises, generation raises, the backend returns no content, the filtered
\* output is empty or blank) leads in both endpoints to an attempt of the
\* plain path with the same input and the session's history; the plain path
\* is begun once only; no step of the tool path ends the request with an
\* error signal.
C17_FailureLeadsToOnePlainAttempt ==
    /\ \A r \in Reqs : ToolPathFailed(r) ~> PlainAttempt(r)
    /\ [][\A r \in Reqs :
            /\ (rq[r].pc = "p_start" /\ rq'[r].pc # "p_start")
                  => /\ rq'[r].pc \in {"p_invoke", "p_stream"}
                     /\ rq'[r].read = session_cache[rq[r].session_id]
                     /\ rq'[r].input = rq[r].input
                     /\ rq'[r].session_id = rq[r].session_id
            /\ rq[r].pc \in {"p_invoke", "p_stream", "p_validate", "done"}
                  => rq'[r].pc \notin ToolPcs \cup {"p_start"}
            /\ (rq[r].pc \in ToolPcs /\ rq'[r].pc \notin ToolPcs)
                  => \/ rq'[r].pc = "p_start"
                     \/ /\ rq'[r].pc = "done"
                        /\ rq[r].body_ok
                        /\ rq'[r].status # 500
                        /\ \A i \in 1..Len(rq'[r].events) :
                              rq'[r].events[i].event # "error"]_vars

\* C17's case: a stream whose tool path delivered a token and then found
\* its filtered output invalid is generating on the plain path from the
\* session's history, which an earlier request has filled.
C17_Witness ==
    /\ use_mcp_in_chat
    /\ rq[1].endpoint = "stream"
    /\ rq[1].tool_failed = "validate"
    /\ EventsOf(1, "token") # {}
    /\ PlainAttempt(1)
    /\ rq[1].read = EarlierTurns
    /\ session_cache[rq[1].session_id] = EarlierTurns

\* The plain path's program points after its start.
PlainRunning == {"p_invoke", "p_stream", "p_validate"}

\* The answer of request r is an error signal: HTTP 500 with a detail field
\* and no text, or a stream that ends with error, done.
ErrorAnswer(q) ==
    IF q.endpoint = "chat"
    THEN q.status = 500 /\ q.detail # None /\ q.text = <<>>
    ELSE /\ Len(q.events) >= 2
         /\ q.events[Len(q.events) - 1].event = "error"
         /\ q.events[Len(q.events)].event = "done"

\* C18: a plain path that ends without a valid reply (the backend raised,
\* or the filtered output is empty or blank) ends the request: /v1/chat
\* answers 500 with a detail field, /v1/chat/stream ends with error, done,
\* the plain path has appended nothing, and no generation is attempted
\* afterwards.
C18_PlainFailureIsTerminal ==
    /\ [](\A r \in Reqs : EndedInError(r) =>
            (ErrorAnswer(rq[r]) /\ CommitsOn(r, "plain") = {}))
    /\ [][\A r \in Reqs :
            /\ (rq[r].pc \in PlainRunning /\ rq'[r].pc = "done"
                  /\ rq'[r].commits = rq[r].commits)
                  => (ErrorAnswer(rq'[r]) /\ session_cache' = session_cache)
            /\ (rq[r].pc = "p_validate" /\ rq'[r] # rq[r]
                  /\ (NothingLeft(r) \/ ~rq[r].emitted))
                  => (rq'[r].pc = "done" /\ ErrorAnswer(rq'[r])
                        /\ session_cache' = session_cache)
            /\ rq[r].pc \in PlainRunning => rq'[r].pc \in PlainRunning \cup {"done"}
            /\ rq[r].pc = "done" => rq'[r] = rq[r]]_vars

\* C18's case: with no tool path, /v1/chat has answered 500 and a stream
\* whose filtered output was blank has ended with error, done, and no
\* history holds anything.
C18_Witness ==
    /\ ~use_mcp_in_chat
    /\ rq[1].endpoint = "chat"
    /\ rq[1].pc = "done"
    /\ ErrorAnswer(rq[1])
    /\ rq[2].endpoint = "stream"
    /\ rq[2].full_response_content # <<>>
    /\ NothingLeft(2)
    /\ PlainStreamFailed(2)
    /\ ErrorAnswer(rq[2])
    /\ \A s \in Sessions : session_cache[s] = <<>>

\* C19: with settings.use_mcp_in_chat off, in both endpoints no request is
\* ever on the tool path (no tool session acquired, no agent call), none has
\* a tool-path failure, commit or event, and a request that has arrived is on
\* the plain path or finished.
C19_ToolPathOnlyWhenEnabled ==
    ~use_mcp_in_chat =>
        \A r \in Reqs :
            /\ rq[r].pc \in PlainPcs \cup {"idle", "done"}
            /\ rq[r].tool_failed = "no"
            /\ ~rq[r].body_ok
            /\ CommitsOn(r, "tool") = {}
            /\ \A i \in 1..Len(rq[r].events) : rq[r].events[i].path = "plain"

\* C19's case: with tool augmentation off, a /v1/chat request and a
\* /v1/chat/stream request were served to a valid reply by the plain path.
C19_Witness ==
    /\ ~use_mcp_in_chat
    /\ rq[1].endpoint = "chat"
    /\ rq[1].status = 200
    /\ CommitsOn(1, "plain") # {}
    /\ StreamComplete(2)
    /\ EventsOf(2, "token") # {}
    /\ CommitsOn(2, "plain") # {}

\* C20: commits are serialized per session: whenever a request appends its
\* pair, the history it read when its generation began is still the history
\* of its session, so no other request has appended to that session between
\* its read and its commit.
C20_CommitOnHistoryRead ==
    [][\A r \in Reqs :
          Len(rq'[r].commits) > Len(rq[r].commits)
             => rq[r].read = session_cache[rq[r].session_id]]_vars

\* The turns of history h that request r appended are whole pairs: each user
\* turn with r's input is followed by the reply of one of r's commits, which
\* passed the validation.
OwnTurnsWhole(r, h) ==
    /\ UserTurns(r, h) = Len(rq[r].commits)
    /\ \A i \in 1..Len(h) :
          (h[i].role = "user" /\ h[i].content = InputOf(r))
             => /\ i < Len(h)
                /\ h[i + 1].role = "assistant"
                /\ ~IsBlank(h[i + 1].content)
                /\ \E c \in 1..Len(rq[r].commits) :
                      rq[r].commits[c].text = h[i + 1].content

\* C21: a stream whose client disconnected before done has appended nothing
\* or the whole validated pair, never a user turn alone, and a history
\* changes only by a whole pair appended once the backend's output is
\* complete; a disconnect while token events are still being delivered leaves
\* a history with nothing of the request.
C21_DisconnectAppendsNothingPartial ==
    /\ [](\A r \in Reqs :
            rq[r].pc = "cancelled"
               => (/\ OwnTurnsWhole(r, session_cache[rq[r].session_id])
                   /\ Len(rq[r].commits) <= 1))
    /\ [][\A r \in Reqs :
            /\ session_cache' # session_cache
                  => (rq'[r] # rq[r] => rq[r].source = <<>>)
            /\ (rq[r].pc \in {"t_stream", "p_stream"} /\ rq'[r].pc = "cancelled")
                  => UserTurns(r, session_cache'[rq[r].session_id]) = 0]_vars

\* C22: backend calls are bounded: a request waiting for a tool-path
\* generation call goes on to the plain path or to its end even if the call
\* never completes, a request waiting for a plain-path call comes to its end
\* even if the call never completes, so every request that arrived ends.
C22_BackendCallsBounded ==
    \A r \in Reqs :
        /\ (rq[r].pc \in {"t_invoke", "t_stream"}) ~> (rq[r].pc \in PlainPcs \cup {"done"})
        /\ (rq[r].pc \in {"p_invoke", "p_stream"}) ~> (rq[r].pc = "done")
        /\ (rq[r].pc # "idle") ~> (rq[r].pc = "done")

\* Request r holds a tool session: it has entered the block more often than
\* it has left it.
Holds(r) == rq[r].acquired > rq[r].released

\* C23: a request acquires a tool session at most once; it holds one only
\* inside the tool path's block; whenever it is on the plain path, has
\* delivered done, has ended or was cancelled, the session it acquired has
\* been released: on success, on a validation failure, on an exception during
\* generation and on a disconnect alike.
C23_ToolSessionScoped ==
    \A r \in Reqs :
        /\ rq[r].acquired <= 1
        /\ rq[r].released <= rq[r].acquired
        /\ Holds(r) <=> rq[r].pc \in InBlock
        /\ rq[r].pc \in PlainPcs \cup {"done", "cancelled", "rejected"} => ~Holds(r)
        /\ EventsOf(r, "done") # {} => ~Holds(r)
        /\ rq[r].tool_failed \in {"generate", "validate", "release"}
              => (rq[r].pc = "t_release" \/ rq[r].released = 1)

\* C23's case: a stream's tool path failed its validation after a token
\* event, its session was released, and the plain path is generating.
C23_Witness ==
    /\ rq[1].endpoint = "stream"
    /\ rq[1].tool_failed = "validate"
    /\ EventsOf(1, "token") # {}
    /\ rq[1].acquired = 1
    /\ rq[1].released = 1
    /\ rq[1].pc = "p_stream"

\* C24: a request whose body lacks session_id or input, or carries a field
\* outside the schema, is answered 422 and nothing else: no path is started
\* (no session acquired, no event, no text), no history is read, none is
\* changed, and the request takes no further step. Only such bodies are
\* answered 422.
C24_InvalidBodyRejected ==
    /\ [](\A r \in Reqs :
            /\ (rq[r].pc # "idle" /\ (~(Required \subseteq rq[r].body)
                                      \/ rq[r].body \ SchemaFields # {}))
                  => /\ rq[r].pc = "rejected"
                     /\ rq[r].status = 422
                     /\ rq[r].read = <<>>
                     /\ rq[r].commits = <<>>
                     /\ rq[r].acquired = 0
                     /\ rq[r].events = <<>>
                     /\ rq[r].text = <<>>
            /\ rq[r].status = 422
                  => (~(Required \subseteq rq[r].body) \/ rq[r].body \ SchemaFields # {}))
    /\ [][\A r \in Reqs :
            /\ rq'[r].pc = "rejected" /\ rq[r].pc # "rejected"
                  => session_cache' = session_cache
            /\ rq[r].pc = "rejected" => rq'[r] = rq[r]]_vars

\* C24's case: a body with both required fields and a system field was
\* answered 422 while the session holds earlier turns.
C24_Witness ==
    /\ rq[1].pc = "rejected"
    /\ rq[1].body = Required \cup {"system"}
    /\ rq[1].status = 422
    /\ session_cache["s1"] = EarlierTurns

\* C24's second case: a body without input was answered 422.
C24_WitnessMissing ==
    /\ rq[1].pc = "rejected"
    /\ rq[1].body = {"session_id"}
    /\ rq[1].status = 422

\* The data of the token events of path p among events evs, concatenated in
\* delivery order.
RECURSIVE TokenData(_, _)
TokenData(evs, p) ==
    IF evs = <<>> THEN <<>>
    ELSE (IF Head(evs).event = "token" /\ Head(evs).path = p THEN Head(evs).data
          ELSE <<>>) \o TokenData(Tail(evs), p)

\* The assistant turn request r appended on path p, as an optional text.
Committed(r, p) ==
    IF CommitsOn(r, p) = {} THEN None
    ELSE Some(rq[r].commits[CHOOSE i \in CommitsOn(r, p) : TRUE].text)

\* C25: a stream that ended well appended, on the path that delivered done,
\* an assistant turn equal to the concatenation of that path's token data.
C25_HistoryEqualsDelivered ==
    \A r \in Reqs :
        (StreamComplete(r) /\ EndedWell(r))
            => Committed(r, EndedOn(r)) = Some(TokenData(rq[r].events, EndedOn(r)))

\* Request q is a /v1/chat request whose plain path has validated output raw.
ChatValidated(q, raw) ==
    /\ rq[q].endpoint = "chat"
    /\ rq[q].pc = "done"
    /\ rq[q].raw = raw
    /\ raw # <<>>

\* C26: when the plain path of a stream validates a backend output that the
\* plain path of a /v1/chat request has validated too, the stream appends an
\* assistant turn exactly if the chat request did, and the same one.
C26_ModesAgree ==
    [][\A q, r \in Reqs :
          (/\ ChatValidated(q, rq[r].raw)
           /\ rq[r].endpoint = "stream"
           /\ rq[r].pc = "p_validate"
           /\ rq'[r].pc = "done")
          => /\ (CommitsOn(q, "plain") # {})
                    <=> (Len(rq'[r].commits) > Len(rq[r].commits))
             /\ (CommitsOn(q, "plain") # {})
                    => rq'[r].commits[Len(rq'[r].commits)].text = Committed(q, "plain")[1]]_vars

\* C27: building an LLM never changes settings.chat_model_id; every LLM has
\* the request's model if it gave a non-empty one and the configured model
\* otherwise, and the request's temperature if it gave one (0 included) and
\* 0.2 otherwise, whatever the requests before it asked for.
C27_OverridesAreLocal ==
    /\ [](\A i \in 1..Len(llms) :
            /\ llms[i].model =
                 IF llms[i].model_in \in {None, Some("")} THEN chat_model_id
                 ELSE llms[i].model_in[1]
            /\ llms[i].temperature =
                 IF llms[i].temperature_in = None THEN DefaultTemperature
                 ELSE llms[i].temperature_in[1])
    /\ [][chat_model_id' = chat_model_id]_vars

\* C27's case: after a request that overrode the model and asked for
\* temperature 0, which it got, a request without overrides got the defaults.
C27_Witness ==
    /\ Len(llms) = 2
    /\ llms[1].model_in = Some("m1")
    /\ llms[1].temperature_in = Some(0)
    /\ llms[1].model = "m1"
    /\ llms[1].temperature = 0
    /\ llms[2].model_in = None
    /\ llms[2].temperature_in = None
    /\ llms[2].model = chat_model_id
    /\ llms[2].temperature = DefaultTemperature

\* Text t is the reply text the precedence gives for agent result out: the
\* string itself; for a dict its non-empty output, otherwise the content of
\* its last AIMessage, otherwise what output holds; nothing for other results.
TakenFrom(out, t) ==
    IF out.kind = "str" THEN t = out.output
    ELSE IF out.kind # "dict" THEN t = None
    ELSE IF out.output # None /\ out.output[1] # <<>> THEN t = out.output
    ELSE IF out.has_messages /\ \E i \in 1..Len(out.messages) : out.messages[i].ai
    THEN \E i \in 1..Len(out.messages) :
            /\ out.messages[i].ai
            /\ \A j \in (i + 1)..Len(out.messages) : ~out.messages[j].ai
            /\ t = Some(out.messages[i].content)
    ELSE t = out.output

\* C28: when agent.ainvoke returns in /v1/chat, the reply text is taken from
\* the result by the precedence and filtered; if that leaves text, the
\* history of the session grows by exactly the user input and that text, and
\* this text is the one answered; if not, the history is left alone and the
\* tool path has failed.
C28_ExtractionPrecedence ==
    [][\A r \in Reqs :
          (rq[r].pc = "t_invoke" /\ rq'[r].agent_out # None)
          => \E t \in {None} \cup {Some(x) : x \in {<<>>, OK, Closed, Unclosed, OnlyRegion, Blank}} :
                /\ TakenFrom(rq'[r].agent_out[1], t)
                /\ LET h == session_cache[rq[r].session_id]
                       h2 == session_cache'[rq[r].session_id]
                       clean == IF t = None THEN <<>> ELSE strip_thinking_tags(t[1])
                   IN  IF clean = <<>> \/ IsBlank(clean)
                       THEN /\ h2 = h
                            /\ rq'[r].tool_failed = "validate"
                            /\ rq'[r].commits = rq[r].commits
                       ELSE /\ Len(h2) = Len(h) + 2
                            /\ Prefix(h2, Len(h)) = h
                            /\ h2[Len(h) + 1].role = "user"
                            /\ h2[Len(h) + 1].content = rq[r].input
                            /\ h2[Len(h) + 2].role = "assistant"
                            /\ h2[Len(h) + 2].content = clean
                            /\ rq'[r].pending = clean
                            /\ rq'[r].tool_failed = "no"]_vars

\* C28's case: the agent returned a dict without output whose last
\* AIMessage holds text, and the history ends with the input and that text.
C28_Witness ==
    /\ rq[1].endpoint = "chat"
    /\ rq[1].pc = "t_release"
    /\ rq[1].agent_out # None
    /\ rq[1].agent_out[1].output = None
    /\ rq[1].agent_out[1].has_messages
    /\ rq[1].pending = Unclosed
    /\ Len(session_cache["s1"]) = 2
    /\ session_cache["s1"][2].content = Unclosed

\* Call c was served from the cache: it returned a token and fetched nothing.
ServedFromCache(c) == c.token # None /\ c.attempts = <<>>

\* Call c fetched the token it returned.
Fetched(c) ==
    /\ c.token # None
    /\ \E k \in 1..Len(c.attempts) :
          /\ c.attempts[k].outcome = "token"
          /\ c.attempts[k].method = c.token[1].method
          /\ c.token[1].at = c.at

\* The audience of the URL of call c: the URL up to its /v1 path, without
\* trailing slashes.
AudienceOf(c) ==
    CHOOSE a \in {UrlA, UrlB} : \E rst \in {<<>>, V1, V1 \o <<"/">>} : c.url[1] = a \o rst

\* C29: a call served from the cache returns a token that an earlier call
\* fetched for the audience of the call's URL, less than 3600 - 300 seconds
\* ago; whatever a call returns was fetched for the audience of its URL; and
\* of two consecutive calls for one Cloud Run URL, the second, made inside
\* the window of the token the first returned, fetches nothing and returns
\* that token.
C29_CacheServesSameAudienceInWindow ==
    \A i \in 1..Len(calls) :
        LET c == calls[i]
        IN  /\ c.token # None => c.token[1].audience = AudienceOf(c)
            /\ ServedFromCache(c)
                  => /\ c.at + TOKEN_REFRESH_MARGIN < c.token[1].at + TokenLifetime
                     /\ \E j \in 1..(i - 1) : Fetched(calls[j]) /\ calls[j].token = c.token
            /\ c.token # None => (ServedFromCache(c) \/ Fetched(c))
            /\ (/\ i > 1
                /\ calls[i - 1].url = c.url
                /\ calls[i - 1].token # None
                /\ c.at + TOKEN_REFRESH_MARGIN
                      < calls[i - 1].token[1].at + TokenLifetime)
                  => /\ c.attempts = <<>>
                     /\ c.token = calls[i - 1].token

\* C29's case: a token fetched for a.run.app is served again 3299 seconds
\* later for a.run.app/v1/, fetched anew one second after that, and not
\* served for b.run.app/v1.
C29_Witness ==
    /\ Len(calls) = 3
    /\ calls[1].url = Some(UrlA)
    /\ Fetched(calls[1])
    /\ calls[2].url = Some(UrlA \o V1 \o <<"/">>)
    /\ calls[2].at = calls[1].at + 3299
    /\ ServedFromCache(calls[2])
    /\ calls[2].token = calls[1].token
    /\ calls[3].url = Some(UrlB \o V1)
    /\ calls[3].at = calls[2].at
    /\ Fetched(calls[3])
    /\ calls[3].token[1].audience = UrlB

\* C29's second case: the token is 3300 seconds old and is fetched anew.
C29_WitnessExpired ==
    /\ Len(calls) = 2
    /\ calls[1].url = Some(UrlA)
    /\ Fetched(calls[1])
    /\ calls[2].url = Some(UrlA)
    /\ calls[2].at = calls[1].at + 3300
    /\ Fetched(calls[2])

\* The URL of call c is None, empty, or holds no .run.app.
NotCloudRun(c) ==
    \/ c.url = None
    \/ c.url[1] = <<>>
    \/ \A k \in 1..(Len(c.url[1]) - 7) : SubSeq(c.url[1], k, k + 7) # RunApp

\* C30: a call for a URL that is None, empty or without .run.app returns
\* None (get_auth_headers: an empty dict), fetches nothing and leaves the
\* cache as it was; so does, but for the fetches, a call whose fetches all
\* fail; impersonation is attempted only as the second fetch, after
\* fetch_id_token raised or handed out no token; and get_auth_headers returns
\* exactly Authorization: Bearer <token> when the call obtained a token.
C30_NoTokenNoHeader ==
    \A i \in 1..Len(calls) :
        LET c == calls[i]
        IN  /\ NotCloudRun(c)
                  => /\ c.token = None
                     /\ c.attempts = <<>>
                     /\ c.after = c.before
            /\ (c.attempts # <<>> /\ \A k \in 1..Len(c.attempts) : c.attempts[k].outcome # "token")
                  => /\ c.token = None
                     /\ c.after = c.before
                     /\ Len(c.attempts) = 2
            /\ \A k \in 1..Len(c.attempts) :
                  c.attempts[k].method = "impersonation"
                      => /\ k = 2
                         /\ c.attempts[1].method = "fetch_id_token"
                         /\ c.attempts[1].outcome \in {"none", "raise"}
            /\ c.fn = "get_auth_headers"
                  => c.headers =
                       Some(IF c.token = None THEN {}
                            ELSE {[name |-> "Authorization",
                                   value |-> <<"Bearer", " ", c.token[1]>>]})
            /\ c.fn = "get_id_token_for_url" => c.headers = None

\* C30's case: while the cache holds a token for a.run.app, get_auth_headers
\* for b.run.app/v1 finds fetch_id_token raising and impersonation failing:
\* it returns an empty dict and the cache still holds the token.
C30_Witness ==
    /\ Len(calls) = 3
    /\ calls[1].url = Some(UrlA)
    /\ Fetched(calls[1])
    /\ calls[2].fn = "get_auth_headers"
    /\ calls[2].url = Some(UrlB \o V1)
    /\ Len(calls[2].attempts) = 2
    /\ calls[2].attempts[1].outcome = "raise"
    /\ calls[2].headers = Some({})
    /\ token_cache.token = calls[1].token
    /\ calls[3].fn = "get_auth_headers"
    /\ calls[3].url = None
    /\ calls[3].headers = Some({})

\* What a filter has to keep to find the markers: less than a start marker
\* outside a region, a start marker and less than an end marker inside one.
OutsideBound == Len(THINK) - 1
InsideBound == Len(THINK) + Len(ENDTHINK) - 1

\* C32: outside a region the buffer holds less than a start marker; inside
\* a region a buffer that is longer than what is needed to find the end
\* marker does not grow with the text that is streamed into the region.
C32_BufferBounded ==
    /\ [](~filt.in_thinking => Len(filt.buffer) <= OutsideBound)
    /\ [][(/\ filt.in_thinking
           /\ filt'.in_thinking
           /\ Len(filt.buffer) > InsideBound)
          => Len(filt'.buffer) <= Len(filt.buffer)]_vars

\* C33: for an input without a complete start marker, however it is cut
\* into fragments, what process has returned so far followed by what it
\* withholds is the input consumed so far, the filter never enters a region
\* or the stripping mode, and after flush the output is the input.
C33_NoMarkerIdentity ==
    ~Contains(Flatten(pieces), THINK)
        => /\ yielded \o filt.buffer = Consumed(rest)
           /\ ~filt.in_thinking
           /\ ~filt.strip_leading_ws
           /\ flushed => (yielded = Flatten(pieces) /\ filt.buffer = <<>>)

\* C33's case: an input that ends with a proper prefix of the start marker
\* was fed in two fragments, the prefix was withheld, and flush released it.
C33_Witness ==
    /\ pieces = <<<<"a">>, ENDTHINK, <<" ">>, Prefix(THINK, 4)>>
    /\ flushed
    /\ yielded = <<"a">> \o ENDTHINK \o <<" ">> \o Prefix(THINK, 4)

\* C33's case before flush: the prefix is withheld.
C33_WitnessWithheld ==
    /\ pieces = <<<<"a">>, Prefix(THINK, 4)>>
    /\ rest = <<>>
    /\ ~flushed
    /\ yielded = <<"a">>
    /\ filt.buffer = Prefix(THINK, 4)

\* The fragment the step hands to process, and what process returns for it.
Fragment == Prefix(rest, Len(rest) - Len(rest'))
Returned == Suffix(yielded', Len(yielded))

\* Text t holds no character a marker begins with.
NoMarkerIn(t) == \A k \in 1..Len(t) : t[k] # "<"

\* C34: a process call that finds the end marker of the open region, or a
\* whole region, with nothing but whitespace behind it returns nothing and
\* switches stripping on; while stripping, a fragment that is all whitespace returns nothing and
\* stripping goes on; the first fragment with other text returns that text
\* without its leading whitespace and switches stripping off; and from then
\* on a fragment of ordinary text, leading whitespace included, is returned
\* unchanged.
C34_StripAcrossFragments ==
    [][rest' # rest =>
          /\ (/\ filt.in_thinking
              /\ Contains(filt.buffer \o Fragment, ENDTHINK)
              /\ IsBlank(Suffix(filt.buffer \o Fragment,
                                Find(filt.buffer \o Fragment, ENDTHINK) + Len(ENDTHINK))))
                => (Returned = <<>> /\ filt' = [NewFilter EXCEPT !.strip_leading_ws = TRUE])
          /\ (/\ filt = NewFilter
              /\ StartsAt(Fragment, Region, 0)
              /\ IsBlank(Suffix(Fragment, Len(Region))))
                => (Returned = <<>> /\ filt' = [NewFilter EXCEPT !.strip_leading_ws = TRUE])
          /\ (filt.strip_leading_ws /\ IsBlank(Fragment))
                => (Returned = <<>> /\ filt' = filt)
          /\ (filt.strip_leading_ws /\ ~IsBlank(Fragment) /\ NoMarkerIn(Fragment))
                => /\ Returned # <<>>
                   /\ Returned[1] \notin WS
                   /\ \E k \in 0..Len(Fragment) :
                         IsBlank(Prefix(Fragment, k)) /\ Returned = Suffix(Fragment, k)
                   /\ filt' = NewFilter
          /\ (filt = NewFilter /\ NoMarkerIn(Fragment))
                => (Returned = Fragment /\ filt' = NewFilter)]_vars

\* C34's case: a region, whitespace, a letter and whitespace were filtered:
\* the whitespace behind the region is gone and the one behind the letter
\* came out.
C34_Witness ==
    /\ pieces = <<Region, <<" ">>, <<"a">>, <<" ">>>>
    /\ flushed
    /\ yielded = <<"a", " ">>

\* C34's case on the way: the filter is stripping, has taken one fragment
\* of whitespace and returned nothing, and more whitespace is to come.
C34_WitnessStripping ==
    /\ pieces = <<Region, <<" ">>, <<" ">>, <<"a">>>>
    /\ rest = <<" ", "a">>
    /\ filt.strip_leading_ws
    /\ yielded = <<>>

\* C35: whenever process has returned: outside a region the buffer is
\* empty or a proper prefix of the start marker; inside a region it begins
\* with the start marker and holds no end marker; while stripping the filter
\* is outside a region with an empty buffer. After flush the filter is as
\* new, and flushing it again returns nothing and leaves it so.
C35_FilterStateInvariant ==
    /\ ~filt.in_thinking
          => \E i \in 0..(Len(THINK) - 1) : filt.buffer = Prefix(THINK, i)
    /\ filt.in_thinking
          => /\ StartsAt(filt.buffer, THINK, 0)
             /\ \A k \in 0..Len(filt.buffer) : ~StartsAt(filt.buffer, ENDTHINK, k)
    /\ filt.strip_leading_ws => (~filt.in_thinking /\ filt.buffer = <<>>)
    /\ flushed
          => /\ filt = NewFilter
             /\ flush(filt).out = <<>>
             /\ FilterOf(flush(filt)) = NewFilter

\* C35's case: text and a start marker came in one fragment and the region
\* is open: the buffer begins with the marker.
C35_Witness ==
    /\ ~flushed
    /\ pieces = <<<<"a">>, THINK, <<"a">>>>
    /\ rest = <<>>
    /\ filt.in_thinking
    /\ filt.buffer = THINK \o <<"a">>
    /\ yielded = <<"a">>

\* C35's case after flush: an open region was flushed.
C35_WitnessFlushed ==
    /\ flushed
    /\ pieces = <<<<"a">>, THINK, <<"a">>>>
    /\ filt = NewFilter
    /\ yielded = <<"a">>

\* What a new filter and new accumulators hold after the chunks cs: the
\* filter, the data of the token events, the emitted flag and the raw text.
RECURSIVE FreshRun(_)
FreshRun(cs) ==
    IF cs = <<>>
    THEN [f |-> NewFilter, tokens |-> <<>>, emitted |-> FALSE, full |-> <<>>]
    ELSE LET before == FreshRun(Prefix(cs, Len(cs) - 1))
             res == process(before.f, cs[Len(cs)])
         IN  [f |-> FilterOf(res),
              tokens |-> IF res.out # <<>> THEN Append(before.tokens, res.out)
                         ELSE before.tokens,
              emitted |-> before.emitted \/ res.out # <<>>,
              full |-> before.full \o cs[Len(cs)]]

\* The data of the token events of path p among events evs, one by one.
RECURSIVE TokensOn(_, _)
TokensOn(evs, p) ==
    IF evs = <<>> THEN <<>>
    ELSE (IF Head(evs).event = "token" /\ Head(evs).path = p THEN <<Head(evs).data>>
          ELSE <<>>) \o TokensOn(Tail(evs), p)

\* C36: the plain path of a stream starts with a new filter, the emitted
\* flag off and no accumulated text, whatever the tool path left; while it
\* consumes chunks, its filter, its token events, its flag and its
\* accumulated text are those of a new filter fed with the chunks consumed,
\* so they depend on nothing else; and a step of one request changes no
\* other request's filter or accumulators.
C36_FilterScopedToOneCall ==
    /\ [](\A r \in Reqs :
            (rq[r].endpoint = "stream" /\ rq[r].pc = "p_stream")
                => \E cs \in ChainStreams : \E n \in 0..Len(cs) :
                      /\ rq[r].source = Suffix(cs, n)
                      /\ LET run == FreshRun(Prefix(cs, n))
                         IN  /\ rq[r].think_filter = run.f
                             /\ TokensOn(rq[r].events, "plain") = run.tokens
                             /\ rq[r].emitted = run.emitted
                             /\ rq[r].full_response_content = run.full)
    /\ [][\A r \in Reqs :
            /\ (rq[r].endpoint = "stream" /\ rq[r].pc = "p_start" /\ rq'[r].pc = "p_stream")
                  => /\ rq'[r].think_filter = NewFilter
                     /\ ~rq'[r].emitted
                     /\ rq'[r].full_response_content = <<>>
            /\ rq'[r] # rq[r] => \A q \in Reqs \ {r} : rq'[q] = rq[q]]_vars

\* C36's case: the tool path of a stream was abandoned after a token event,
\* with the emitted flag on and text accumulated, and the plain path is
\* running with a new filter and new accumulators.
C36_Witness ==
    /\ rq[1].endpoint = "stream"
    /\ rq[1].tool_failed = "generate"
    /\ TokensOn(rq[1].events, "tool") = <<<<"a">>>>
    /\ rq[1].pc = "p_stream"
    /\ rq[1].raw = <<>>
    /\ rq[1].think_filter = NewFilter
    /\ ~rq[1].emitted
    /\ rq[1].full_response_content = <<>>

\* History h holds the input of request r directly followed by the
\* assistant turn `text`.
PairIn(h, r, text) ==
    \E i \in 1..(Len(h) - 1) :
        /\ h[i].role = "user"
        /\ h[i].content = rq[r].input
        /\ h[i + 1].role = "assistant"
        /\ h[i + 1].content = text

\* C37: in a stream, when done has been delivered with no error event
\* before it, the path that delivered it has appended its pair and the
\* session history holds that pair; once a path has appended its pair it
\* delivers no further token event; and a pair is appended only while no
\* done event has been delivered.
C37_TokensCommitDone ==
    /\ [](\A r \in Reqs :
            (rq[r].endpoint = "stream" /\ EventsOf(r, "done") # {} /\ EventsOf(r, "error") = {})
                => /\ CommitsOn(r, EndedOn(r)) # {}
                   /\ PairIn(session_cache[rq[r].session_id], r,
                             Committed(r, EndedOn(r))[1]))
    /\ [][\A r \in Reqs : rq[r].endpoint = "stream" =>
            /\ \A p \in {"tool", "plain"} :
                  CommitsOn(r, p) # {}
                      => TokensOn(rq'[r].events, p) = TokensOn(rq[r].events, p)
            /\ Len(rq'[r].commits) > Len(rq[r].commits) => EventsOf(r, "done") = {}]_vars

\* C37's case: a stream delivered two token events on the plain path,
\* appended its pair and delivered done.
C37_Witness ==
    /\ rq[1].endpoint = "stream"
    /\ rq[1].pc = "done"
    /\ Len(rq[1].events) = 3
    /\ rq[1].events[3].event = "done"
    /\ Len(TokensOn(rq[1].events, "plain")) = 2
    /\ CommitsOn(1, "plain") # {}
    /\ PairIn(session_cache["s1"], 1, Committed(1, "plain")[1])

\* Request r calls get_session_history in this step.
GetsHistory(r) ==
    /\ rq[r].pc \in {"t_acquire", "p_start"}
    /\ rq'[r].pc \in {"t_invoke", "t_stream", "p_invoke", "p_stream"}

\* C38: a session that _session_cache does not hold has no turns; a call of
\* get_session_history stores a history for the id if there is none, changes
\* no history, and hands out the turns the session holds at that moment; a
\* step changes the history of at most one session, the one of the request
\* that takes the step; and every step leaves every history a prefix of what
\* it is afterwards.
C38_HistoriesIndependentAppendOnly ==
    /\ [](\A s \in Sessions : s \notin created => session_cache[s] = <<>>)
    /\ [][/\ created \subseteq created'
          /\ \A s \in Sessions :
                /\ Len(session_cache'[s]) >= Len(session_cache[s])
                /\ Prefix(session_cache'[s], Len(session_cache[s])) = session_cache[s]
                /\ session_cache'[s] # session_cache[s]
                      => /\ \A t \in Sessions \ {s} : session_cache'[t] = session_cache[t]
                         /\ \E r \in Reqs : rq'[r] # rq[r] /\ rq[r].session_id = s
          /\ \A r \in Reqs :
                GetsHistory(r)
                    => /\ rq'[r].read = session_cache[rq[r].session_id]
                       /\ session_cache' = session_cache
                       /\ created' = created \cup {rq[r].session_id}]_vars

\* C38's case: two requests of two sessions have each appended a pair, and
\* the second read the history of its session while the first one's pair was
\* already in the other.
C38_Witness ==
    /\ created = {"s1", "s2"}
    /\ Len(session_cache["s1"]) = 2
    /\ Len(session_cache["s2"]) = 2
    /\ rq[2].session_id = "s2"
    /\ rq[2].read = <<>>
    /\ rq[2].pc = "done"

\* C38's second case: two requests of one session; the second read the
\* pair of the first and appended its own behind it.
C38_WitnessSameSession ==
    /\ created = {"s1"}
    /\ Len(session_cache["s1"]) = 4
    /\ rq[2].session_id = "s1"
    /\ rq[2].read = Prefix(session_cache["s1"], 2)
    /\ rq[2].pc = "done"

\* A call of doc_get that goes by its path: the path is not empty, or it
\* is empty and no other identifier is given (an empty path counts as no
\* path, and the call then goes by the other identifiers).
ByPath(c) ==
    /\ c.path # None
    /\ c.path[1] = <<>> => Falsy(c.gcs_uri) /\ Falsy(c.rag_file_id)

\* C31: a call of doc_get by a path reads only an object whose name is in
\* ALLOWED_MCP_PATHS, and a path that is not in ALLOWED_MCP_PATHS is
\* answered with an error without any access to storage.
C31_PathWhitelist ==
    \A i \in 1..Len(doc_calls) :
        LET c == doc_calls[i]
        IN  ByPath(c) =>
              /\ \A k \in 1..Len(c.did.reads) : c.did.reads[k].blob \in ALLOWED_MCP_PATHS
              /\ c.path[1] \notin ALLOWED_MCP_PATHS =>
                    (c.did.reads = <<>> /\ ~c.did.content)

\* C31, the part that holds: an empty path, an absolute path, a path with
\* ".." and a path whose normal form is not in ALLOWED_MCP_PATHS are refused
\* without any access.
C31_RefusedWithoutAccess ==
    \A i \in 1..Len(doc_calls) :
        LET c == doc_calls[i]
        IN  (/\ ByPath(c)
             /\ \/ c.path[1] = <<>>
                \/ StartsAt(c.path[1], <<"/">>, 0)
                \/ Contains(c.path[1], DotDot)
                \/ as_posix(c.path[1]) \notin ALLOWED_MCP_PATHS)
            => (c.did.reads = <<>> /\ ~c.did.content /\ ~c.did.retrieved)

\* The route a call of doc_get takes.
Route(c) ==
    IF ~Falsy(c.path) THEN "path"
    ELSE IF ~Falsy(c.gcs_uri) THEN "gcs_uri"
    ELSE IF ~Falsy(c.rag_file_id) THEN "rag_file_id"
    ELSE "none"

C39_WitnessPath ==
    \E i \in 1..Len(doc_calls) :
        Route(doc_calls[i]) = "path" /\ doc_calls[i].did.content

\* A URI of another bucket was refused without a read.
C39_WitnessRefused ==
    \E i \in 1..Len(doc_calls) :
        /\ Route(doc_calls[i]) = "gcs_uri"
        /\ doc_calls[i].gcs_uri = Some(Gs(OtherBucket, <<Secret>>))
        /\ doc_calls[i].did.reads = <<>>

\* A call without identifier was made.
C39_WitnessNone ==
    \E i \in 1..Len(doc_calls) : Route(doc_calls[i]) = "none"

\* The status the middleware is to answer an upstream outcome with: 503
\* for a connection failure, 504 for a timeout, 429 for rate limiting, the
\* error's status code or 502 for any other API error, 500 for any other
\* exception, 502 for a response without choices.
Expected(up) ==
    IF up.kind = "return" THEN (IF up.choices = 0 THEN 502 ELSE 200)
    ELSE IF up.class = "APITimeoutError" THEN 504
    ELSE IF up.class = "APIConnectionError" THEN 503
    ELSE IF up.class = "RateLimitError" THEN 429
    ELSE IF IsInstance(up.class, "APIError")
         THEN (IF up.status_code # None THEN up.status_code[1] ELSE 502)
    ELSE 500

\* C40: every request to /chat is answered with the status of its upstream
\* outcome: connection failure 503, timeout 504, rate limiting 429, another
\* API error its status code or 502, another exception 500, no choices 502.
C40_StatusOfFailure ==
    \A i \in 1..Len(mw_calls) : mw_calls[i].status = Expected(mw_calls[i].upstream)

\* C40, the part that holds: every outcome but the timeout gets its status.
C40_StatusButTimeout ==
    \A i \in 1..Len(mw_calls) :
        mw_calls[i].upstream.class # "APITimeoutError"
        => mw_calls[i].status = Expected(mw_calls[i].upstream)

\* No request is ever answered 504, and the clause for APITimeoutError never
\* handles an error.
C40_Never504 ==
    \A i \in 1..Len(mw_calls) : mw_calls[i].status # 504 /\ mw_calls[i].handler # 2

====
